---------------------------- MODULE Spec2Model ----------------------------
(***************************************************************************)
(* A model of the orchestration layer of real_trans:                       *)
(*   - RingBuffer            (src/src/core/ring_buffer.rs)                 *)
(*   - Vad                   (src/src/engine/vad.rs)                       *)
(*   - TranslationPipeline   (src/src/engine/translation_pipeline.rs)      *)
(*   - BidirectionalTranslator (src/src/bidirectional_translator.rs)       *)
(*   - AudioSwitchboard      (src/src/audio_switchboard.rs)                *)
(* Each component has its own specification (SpecRB, SpecVad, SpecTP,      *)
(* SpecBT, SpecSB; SpecSB includes the translator the switchboard owns);   *)
(* the variables of the other components stay at their constructed values. *)
(* SpecBTFair, SpecSBFair and SpecTPFair add the scheduling the code       *)
(* relies on.  SpecLK takes the tasks of the switchboard lock by lock.     *)
(* SpecSBControl and SpecSBAudio take the switchboard's control plane      *)
(* (with every kind of control message) and its audio plane (with two      *)
(* chunks) each on its own; SpecSBControlFair and SpecSBAudioFair add the  *)
(* scheduling.                                                             *)
(***************************************************************************)
EXTENDS Integers, Sequences, FiniteSets, TLC

(***************************************************************************)
(* Bounds of the model.                                                    *)
(***************************************************************************)
\* largest capacity a RingBuffer is constructed with
MaxCapacity == 3
\* longest slice handed to RingBuffer::write, largest size handed to read
MaxData == 3
\* number of distinct elements ever offered to a RingBuffer
MaxElems == 4
\* number of threads sharing one RingBuffer
NumThreads == 2
\* number of audio chunks ever submitted to a BidirectionalTranslator
MaxChunks == 2
\* number of concurrent callers of a BidirectionalTranslator's &self methods
NumCallers == 2
\* number of update_language_pair calls
MaxUpdates == 1
\* number of start / stop / initialize_devices calls on an AudioSwitchboard
MaxLifecycle == 2
\* number of control messages ever sent to an AudioSwitchboard
MaxControl == 2

\* number of audio chunks ever delivered to an AudioSwitchboard
MaxAudio == 1
\* number of audio chunks delivered to an AudioSwitchboard whose control channel is
\* left alone
MaxLegs == 2

\* number of audio tasks a switchboard's device callbacks spawn, lock by lock
MaxTasks == 2

\* number of utterances a single TranslationPipeline recognises
MaxUtterances == 2
\* number of frames a single TranslationPipeline recognises
MaxFrames == 2

(***************************************************************************)
(* The state.                                                              *)
(***************************************************************************)
\* RingBuffer<T> and the threads that share it
VARIABLES
    capacity,   \* RingBuffer.capacity
    buffer,     \* RingBuffer.buffer, the VecDeque, front first
    lock,       \* holder of the Mutex around buffer, 0 when free
    pc,         \* per thread: where it is inside write / read
    call,       \* per thread: the arguments and locals of its current call
    nextId,     \* history: the next fresh element
    owner,      \* history: owner[e] is the first element of the write call that offered e
    admitted,   \* history: every element pushed into the queue, in push order
    readLog,    \* history: the concatenation of all read results
    lastObs     \* history: the last readable_size / writable_size / clear call

rbVars == <<capacity, buffer, lock, pc, call, nextId, owner, admitted, readLog, lastObs>>

\* Vad
VARIABLES
    sample_rate,              \* Vad.sample_rate
    frame_duration_ms,        \* Vad.frame_duration_ms
    segment_callback,         \* Vad.segment_callback is Some
    current_segment,          \* Vad.current_segment
    min_speech_duration_ms,   \* Vad.min_speech_duration_ms
    max_silence_duration_ms,  \* Vad.max_silence_duration_ms
    silence_count_ms,         \* Vad.silence_count_ms
    in_speech,                \* Vad.in_speech
    lastResult,               \* the VadResult of the last process_frame, what it did, and (history)
                              \* reached: the silence since the speech start had lasted max_silence_duration_ms,
                              \* short: the speech heard lasted less than min_speech_duration_ms
    heard,                    \* history: the above-threshold frames since the last speech start
    silentMs,                 \* history: duration of the sub-threshold frames since the last speech start
    stream                    \* history: what happened since the Vad was fresh or reset

vadVars == <<sample_rate, frame_duration_ms, segment_callback, current_segment,
             min_speech_duration_ms, max_silence_duration_ms, silence_count_ms,
             in_speech, lastResult, heard, silentMs, stream>>

\* BidirectionalTranslator, its two TranslationPipelines and the spawned translations
VARIABLES
    current_pair,       \* BidirectionalTranslator.current_pair
    current_direction,  \* BidirectionalTranslator.current_direction
    running,            \* BidirectionalTranslator.running
    result_callback,    \* BidirectionalTranslator.result_callback is Some
    capturing,          \* AudioCapture.capturing
    pipeline,           \* per pipeline: source_language, target_language, Asr.language,
                        \* running, translation_callback is Some
    inflight,           \* the &self calls in progress, each after its first statement
    update,             \* the &mut self call in progress (update_language_pair or stop)
                        \* and its position
    tasks,              \* the translation tasks spawned by on_asr_result, not yet run
    delivered,          \* history: the last BidirectionalResult the result callback received
    handed,             \* history: the last process_audio call on a pipeline
    nextChunk,          \* history: the next fresh chunk
    lastPair,           \* history: the arguments of the last new / update_language_pair
    bt_call             \* history: the last start / stop call, what it found and returned

btVars == <<current_pair, current_direction, running, result_callback, capturing, pipeline,
            inflight, update, tasks, delivered, handed, nextChunk, lastPair, bt_call>>

\* AudioSwitchboard: its devices, its control channel and the tasks it spawns; its
\* translator is the BidirectionalTranslator above
VARIABLES
    sb_status,        \* AudioSwitchboard.status
    devices,          \* per endpoint: the device is Some, its is_recording, whether an input
                      \* callback was handed to it, and (history) the opens and closes of
                      \* its input and output stream
    control_queue,    \* the unbounded control channel, oldest message first
    control_rx,       \* control_rx_clone holds the receiver ("stored") or it was taken
    loop_spawned,     \* control-loop tasks spawned by start() that have not run yet
    loop,             \* the control loop that owns the receiver: its position, its message
    translator_lock,  \* holder of the AsyncMutex around the translator, "free" when free
    spawned,          \* the tasks spawned by the input callbacks and the simulate_* callers
                      \* waiting for or holding the translator
    lifecycle,        \* history: number of start / stop / initialize_devices calls, and
                      \* the last two of them
    sent,             \* history: number of control messages sent
    last_callback,    \* history: the last input callback that ran, and who held the translator
    last_origin,      \* history: where the chunk of the last process_audio call came from
    last_control,     \* history: the last message the control loop finished handling
    queue_seq,        \* history: for each queued message, its position among those sent
    last_seq,         \* history: that position for the last message recv() returned
    consumers,        \* history: number of control-loop tasks that got the receiver
    chunk_limit       \* the number of audio chunks delivered in a behaviour

sbHistory == <<queue_seq, last_seq, consumers, chunk_limit>>

sbVars == <<sb_status, devices, control_queue, control_rx, loop_spawned, loop,
            translator_lock, spawned, lifecycle, sent, last_callback, last_origin,
            last_control, sbHistory>>

\* what a step of one component leaves alone
\* a TranslationPipeline on its own, its recogniser and its translator
VARIABLES
    asr_model_path,     \* Asr.model_path
    mt_model_path,      \* Mt.model_path
    asr_initialized,    \* Asr.initialized (and model_loaded, set together)
    mt_initialized,     \* Mt.initialized
    tp_running,         \* TranslationPipeline.running
    tp_callback,        \* TranslationPipeline.translation_callback is Some
    translations,       \* the tasks on_asr_result spawned, not yet run
    utterance,          \* history: the utterance being spoken; the recogniser's final result ends it
    frames,             \* history: the frames recognised
    received,           \* history: the last TranslationResult the callback received
    partials,           \* history: the utterances a partial result was received for
    finalised,          \* history: the utterances the final result was received for
    phase,              \* history: the outcome of the last start / stop
    tp_call,            \* history: the last lifecycle or audio call and what it did
    tp_source_language, \* TranslationPipeline.source_language
    tp_target_language, \* TranslationPipeline.target_language
    asr_language,       \* Asr.language
    translated,         \* history: the last Mt::translate call of a spawned translation
    final_count         \* history: final recognition results handled with a callback
                        \* registered, and callback invocations with a final result

\* the locks of a switchboard's translator and the tasks that take them
VARIABLES
    lk_running,         \* TranslationPipeline.running of both pipelines
    lk_held,            \* per lock, the task that holds it
    lk_pc,              \* per task, the statement it is at: 0 not spawned
    lk_op               \* per audio task, the handler it calls

lkVars == <<lk_running, lk_held, lk_pc, lk_op>>

tpLang == <<tp_source_language, tp_target_language, asr_language>>

tpVars == <<asr_model_path, mt_model_path, asr_initialized, mt_initialized, tp_running,
            tp_callback, translations, utterance, frames, received, partials, finalised,
            phase, tp_call, tpLang, translated, final_count>>

notRB == <<vadVars, btVars, sbVars, tpVars, lkVars>>
notVad == <<rbVars, btVars, sbVars, tpVars, lkVars>>
notBT == <<rbVars, vadVars, sbVars, tpVars, lkVars>>
notSB == <<rbVars, vadVars, tpVars, lkVars>>
notTP == <<rbVars, vadVars, btVars, sbVars, lkVars>>
notLK == <<rbVars, vadVars, btVars, sbVars, tpVars>>

vars == <<rbVars, vadVars, btVars, sbVars, tpVars, lkVars>>

Min(a, b) == IF a <= b THEN a ELSE b

(***************************************************************************)
(* RingBuffer<T>                                                           *)
(*                                                                         *)
(* The elements are opaque to the code (T: Clone); the model offers each   *)
(* element once, as a fresh number, so that an element can be followed     *)
(* through the queue.                                                      *)
(***************************************************************************)

Threads == 1..NumThreads

NoCall == [op |-> "none", data |-> <<>>, size |-> 0, to_write |-> 0, readable |-> 0,
           i |-> 0, result |-> <<>>, pre |-> <<>>]

NoObs == [op |-> "none", value |-> 0, mid |-> FALSE]

\* a thread is between the lock() and the return of write or read
InCall(t) == pc[t] # "idle"

\* RingBuffer::new
RBNew ==
    /\ capacity \in 0..MaxCapacity
    /\ buffer = <<>>
    /\ lock = 0
    /\ pc = [t \in Threads |-> "idle"]
    /\ call = [t \in Threads |-> NoCall]
    /\ nextId = 1
    /\ owner = <<>>
    /\ admitted = <<>>
    /\ readLog = <<>>
    /\ lastObs = NoObs

\* self.buffer.lock().unwrap(): the Mutex is granted only when it is free
CanLockBroken(t) == TRUE
CanLock(t) == lock = 0

\* a write that admits the whole slice and leaves it to the trim loop to evict
ToWriteAll(data, buf, cap) == Len(data)
\* a write that forgets what is already queued
ToWriteNoFree(data, buf, cap) == Min(Len(data), cap)
\* let writable = self.capacity - buffer.len(); min(data.len(), writable)
ToWrite(data, buf, cap) == Min(Len(data), cap - Len(buf))

\* write, lines 24-26: take the lock, compute to_write
WriteLock(t, n) ==
    /\ pc[t] = "idle"
    /\ CanLock(t)
    /\ nextId + n - 1 <= MaxElems
    /\ LET data == [k \in 1..n |-> nextId + k - 1] IN
        /\ call' = [call EXCEPT ![t] = [NoCall EXCEPT !.op = "write", !.data = data,
                        !.to_write = ToWrite(data, buffer, capacity), !.pre = buffer]]
        /\ owner' = owner \o [k \in 1..n |-> nextId]
    /\ nextId' = nextId + n
    /\ lock' = t
    /\ pc' = [pc EXCEPT ![t] = "w_push"]
    /\ UNCHANGED <<capacity, buffer, admitted, readLog, lastObs>>
    /\ UNCHANGED notRB

\* a write that pushes the whole slice and returns, with no regard to the capacity
WritePushAll(t) ==
    /\ pc[t] = "w_push"
    /\ IF call[t].i < Len(call[t].data)
       THEN /\ buffer' = Append(buffer, call[t].data[call[t].i + 1])
            /\ admitted' = Append(admitted, call[t].data[call[t].i + 1])
            /\ call' = [call EXCEPT ![t].i = @ + 1]
            /\ pc' = pc
       ELSE /\ pc' = [pc EXCEPT ![t] = "w_ret"]
            /\ UNCHANGED <<buffer, admitted, call>>
    /\ UNCHANGED <<capacity, lock, nextId, owner, readLog, lastObs>>
    /\ UNCHANGED notRB

\* write, lines 28-30: for item in data.iter().take(to_write) { push_back }
WritePush(t) ==
    /\ pc[t] = "w_push"
    /\ IF call[t].i < call[t].to_write
       THEN /\ buffer' = Append(buffer, call[t].data[call[t].i + 1])
            /\ admitted' = Append(admitted, call[t].data[call[t].i + 1])
            /\ call' = [call EXCEPT ![t].i = @ + 1]
            /\ pc' = pc
       ELSE /\ pc' = [pc EXCEPT ![t] = "w_trim"]
            /\ UNCHANGED <<buffer, admitted, call>>
    /\ UNCHANGED <<capacity, lock, nextId, owner, readLog, lastObs>>
    /\ UNCHANGED notRB

\* write, lines 33-35: while buffer.len() > self.capacity { pop_front }
WriteTrim(t) ==
    /\ pc[t] = "w_trim"
    /\ IF Len(buffer) > capacity
       THEN /\ buffer' = Tail(buffer)
            /\ pc' = pc
       ELSE /\ pc' = [pc EXCEPT ![t] = "w_ret"]
            /\ buffer' = buffer
    /\ UNCHANGED <<capacity, lock, call, nextId, owner, admitted, readLog, lastObs>>
    /\ UNCHANGED notRB

\* write, lines 37-38: return to_write; the guard is dropped
WriteReturn(t) ==
    /\ pc[t] = "w_ret"
    /\ lock' = IF lock = t THEN 0 ELSE lock
    /\ pc' = [pc EXCEPT ![t] = "idle"]
    /\ call' = [call EXCEPT ![t] = NoCall]
    /\ UNCHANGED <<capacity, buffer, nextId, owner, admitted, readLog, lastObs>>
    /\ UNCHANGED notRB

\* read, lines 42-44: take the lock, readable = min(size, buffer.len())
ReadLock(t, size) ==
    /\ pc[t] = "idle"
    /\ CanLock(t)
    /\ lock' = t
    /\ call' = [call EXCEPT ![t] = [NoCall EXCEPT !.op = "read", !.size = size,
                    !.readable = Min(size, Len(buffer)), !.pre = buffer]]
    /\ pc' = [pc EXCEPT ![t] = "r_pop"]
    /\ UNCHANGED <<capacity, buffer, nextId, owner, admitted, readLog, lastObs>>
    /\ UNCHANGED notRB

\* a read that takes the newest element instead of the oldest
ReadPopBack(t) ==
    /\ pc[t] = "r_pop"
    /\ IF call[t].i < call[t].readable
       THEN /\ IF buffer # <<>>
               THEN /\ buffer' = SubSeq(buffer, 1, Len(buffer) - 1)
                    /\ call' = [call EXCEPT ![t].i = @ + 1,
                                    ![t].result = Append(@, buffer[Len(buffer)])]
               ELSE /\ buffer' = buffer
                    /\ call' = [call EXCEPT ![t].i = @ + 1]
            /\ pc' = pc
       ELSE /\ pc' = [pc EXCEPT ![t] = "r_ret"]
            /\ UNCHANGED <<buffer, call>>
    /\ UNCHANGED <<capacity, lock, nextId, owner, admitted, readLog, lastObs>>
    /\ UNCHANGED notRB

\* read, lines 46-50: for _ in 0..readable { if let Some(item) = pop_front { push } }
ReadPop(t) ==
    /\ pc[t] = "r_pop"
    /\ IF call[t].i < call[t].readable
       THEN /\ IF buffer # <<>>
               THEN /\ buffer' = Tail(buffer)
                    /\ call' = [call EXCEPT ![t].i = @ + 1,
                                    ![t].result = Append(@, Head(buffer))]
               ELSE /\ buffer' = buffer
                    /\ call' = [call EXCEPT ![t].i = @ + 1]
            /\ pc' = pc
       ELSE /\ pc' = [pc EXCEPT ![t] = "r_ret"]
            /\ UNCHANGED <<buffer, call>>
    /\ UNCHANGED <<capacity, lock, nextId, owner, admitted, readLog, lastObs>>
    /\ UNCHANGED notRB

\* read, lines 52-53: return result; the guard is dropped
ReadReturn(t) ==
    /\ pc[t] = "r_ret"
    /\ readLog' = readLog \o call[t].result
    /\ lock' = IF lock = t THEN 0 ELSE lock
    /\ pc' = [pc EXCEPT ![t] = "idle"]
    /\ call' = [call EXCEPT ![t] = NoCall]
    /\ UNCHANGED <<capacity, buffer, nextId, owner, admitted, lastObs>>
    /\ UNCHANGED notRB

\* what readable_size() returns in this state
readable_size == Len(buffer)

\* a writable size that counts from the largest capacity
writable_size_of_largest == MaxCapacity - Len(buffer)

\* what writable_size() returns in this state (a usize subtraction: exact as long as
\* the queue is no longer than the capacity)
writable_size == capacity - Len(buffer)

\* readable_size: self.buffer.lock().unwrap().len(), one statement under the lock
ReadableSize(t) ==
    /\ pc[t] = "idle"
    /\ CanLock(t)
    /\ lastObs' = [op |-> "readable_size", value |-> readable_size,
                   mid |-> \E u \in Threads : InCall(u)]
    /\ UNCHANGED <<capacity, buffer, lock, pc, call, nextId, owner, admitted, readLog>>
    /\ UNCHANGED notRB

\* writable_size: self.capacity - self.buffer.lock().unwrap().len()
WritableSize(t) ==
    /\ pc[t] = "idle"
    /\ CanLock(t)
    /\ lastObs' = [op |-> "writable_size", value |-> writable_size,
                   mid |-> \E u \in Threads : InCall(u)]
    /\ UNCHANGED <<capacity, buffer, lock, pc, call, nextId, owner, admitted, readLog>>
    /\ UNCHANGED notRB

\* clear: self.buffer.lock().unwrap().clear()
Clear(t) ==
    /\ pc[t] = "idle"
    /\ CanLock(t)
    /\ buffer' = <<>>
    /\ lastObs' = [op |-> "clear", value |-> 0, mid |-> \E u \in Threads : InCall(u)]
    /\ UNCHANGED <<capacity, lock, pc, call, nextId, owner, admitted, readLog>>
    /\ UNCHANGED notRB

RBNext ==
    \E t \in Threads :
        \/ \E n \in 0..MaxData : WriteLock(t, n)
        \/ WritePush(t)
        \/ WriteTrim(t)
        \/ WriteReturn(t)
        \/ \E size \in 0..MaxData : ReadLock(t, size)
        \/ ReadPop(t)
        \/ ReadReturn(t)
        \/ ReadableSize(t)
        \/ WritableSize(t)
        \/ Clear(t)

(***************************************************************************)
(* Properties of the RingBuffer, checked under SpecRB.                     *)
(***************************************************************************)
RECURSIVE IsSubseq(_, _)
\* s can be obtained from u by deleting elements (the order is kept)
IsSubseq(s, u) ==
    IF s = <<>> THEN TRUE
    ELSE IF u = <<>> THEN FALSE
    ELSE IF Head(s) = Head(u) THEN IsSubseq(Tail(s), Tail(u))
    ELSE IsSubseq(s, Tail(u))

NoDuplicates(s) == \A i, j \in 1..Len(s) : i # j => s[i] # s[j]

\* the last n elements of s (all of s when it is shorter)
Suffix(s, n) == SubSeq(s, Len(s) - Min(n, Len(s)) + 1, Len(s))

\* what reads have taken so far, the partial result of a read in progress included
ReadSoFar ==
    IF \E t \in Threads : pc[t] \in {"r_pop", "r_ret"}
    THEN readLog \o call[CHOOSE t \in Threads : pc[t] \in {"r_pop", "r_ret"}].result
    ELSE readLog

\* thread t has finished a write that was offered more than the free capacity
Overflowed(t) ==
    /\ pc[t] = "w_ret"
    /\ Len(call[t].data) > capacity - Len(call[t].pre)

\* C1: whenever no write call is between taking the lock and returning (so after
\* every write, read or clear has returned), the queue holds at most capacity
\* elements.
C1_AtMostCapacity ==
    (\A t \in Threads : pc[t] \notin {"w_push", "w_trim"}) => Len(buffer) <= capacity

\* C1 witness: a write offered more than the free capacity has filled the queue
C1_Witness ==
    \E t \in Threads : Overflowed(t) /\ capacity > 0 /\ Len(buffer) = capacity

\* C2: a read(size) that is about to return holds exactly the min(size, length)
\* oldest elements in queue order and has removed exactly those; everything read so
\* far, followed by the queue, is an order-preserving subsequence of the admitted
\* elements, and nothing is read twice.
C2_ReadFifo ==
    /\ \A t \in Threads : pc[t] = "r_ret" =>
          LET k == Min(call[t].size, Len(call[t].pre)) IN
            /\ call[t].result = SubSeq(call[t].pre, 1, k)
            /\ buffer = SubSeq(call[t].pre, k + 1, Len(call[t].pre))
    /\ IsSubseq(ReadSoFar \o buffer, admitted)
    /\ NoDuplicates(ReadSoFar)

\* C2 witness: a read of part of the queue returns after an earlier read
C2_Witness ==
    \E t \in Threads :
        /\ pc[t] = "r_ret"
        /\ 0 < call[t].size /\ call[t].size < Len(call[t].pre)
        /\ readLog # <<>>

C4_WriteAdmitsFree ==
    \A t \in Threads : pc[t] = "w_ret" =>
        LET k == Len(call[t].pre) IN
          /\ call[t].to_write = Min(Len(call[t].data), capacity - k)
          /\ buffer = call[t].pre \o SubSeq(call[t].data, 1, call[t].to_write)
          /\ Len(buffer) = k + call[t].to_write

\* C4 witness: the test's case scaled down: a queue of capacity 3 holding 1 admits
\* 2 of 3 and becomes full
C4_Witness ==
    \E t \in Threads :
        /\ pc[t] = "w_ret" /\ capacity = 3
        /\ Len(call[t].pre) = 1 /\ Len(call[t].data) = 3
        /\ call[t].to_write = 2 /\ Len(buffer) = 3

\* C5: calls are atomic: only the holder of the lock is inside a call, a call in
\* progress sees the queue change by its own steps only, readable_size,
\* writable_size and clear never run while a call is partially applied, and the
\* elements of one write call are contiguous in the queue.
C5_Atomic ==
    /\ \A t \in Threads : InCall(t) => lock = t
    /\ lastObs.mid = FALSE
    /\ \A t \in Threads :
          /\ pc[t] = "w_push" =>
                buffer = call[t].pre \o SubSeq(call[t].data, 1, call[t].i)
          /\ pc[t] \in {"r_pop", "r_ret"} => call[t].result \o buffer = call[t].pre
    /\ \A i, j, k \in 1..Len(buffer) :
          (i < j /\ j < k /\ owner[buffer[i]] = owner[buffer[k]])
              => owner[buffer[j]] = owner[buffer[i]]

\* C5 witness: a write is half applied, behind elements of another write call,
\* while another thread has been served a call before it
C5_Witness ==
    \E t \in Threads :
        /\ pc[t] = "w_push"
        /\ 1 <= call[t].i /\ call[t].i < call[t].to_write
        /\ \E i, j \in 1..Len(buffer) : owner[buffer[i]] # owner[buffer[j]]
        /\ lastObs.op # "none"

(***************************************************************************)
(* Vad                                                                     *)
(*                                                                         *)
(* process_frame takes &mut self: a Vad is used by one caller at a time,   *)
(* so every method is one step.  VadResult.probability and .timestamp are  *)
(* outputs no state depends on; they are left out.  The durations are u32  *)
(* in the code; every value the model reaches stays far below 2^32.        *)
(***************************************************************************)
\* longest frame handed to process_frame, in samples
MaxFrameLen == 2
\* most samples accumulated in one segment
MaxSegment == 3

\* the sample values frames are built from (AudioSample = i16)
Samples == {-40, 20, 40}
Frames == UNION {[1..n -> Samples] : n \in 0..MaxFrameLen}
\* the arguments Vad::new is called with
SampleRates == {10}
FrameDurations == {300, 400}
\* the arguments of set_min_speech_duration / set_max_silence_duration
DurationChoices == {400}

\* energy_threshold: 1000.0 (Vad::new)
ENERGY_THRESHOLD == 1000
\* min_speech_duration_ms: 300 (Vad::new)
DEFAULT_MIN_SPEECH_MS == 300
\* max_silence_duration_ms: 800 (Vad::new)
DEFAULT_MAX_SILENCE_MS == 800


NoResult == [decision |-> "none", is_start_of_speech |-> FALSE, is_end_of_speech |-> FALSE,
             cmp |-> "none", was_in_speech |-> FALSE, called |-> FALSE, passed |-> <<>>,
             reached |-> FALSE, short |-> FALSE, was_open |-> FALSE]

\* (open: the last flag a result carried since new / reset was a start of speech;
\* resumed: since that start a frame above the threshold followed one not above it)
FreshStream == [quiet |-> TRUE, started |-> FALSE, called |-> FALSE, open |-> FALSE,
                resumed |-> FALSE]

RECURSIVE SumSq(_)
\* audio_frame.iter().map(|s| s*s).sum()
SumSq(frame) == IF frame = <<>> THEN 0 ELSE Head(frame) * Head(frame) + SumSq(Tail(frame))

\* how the mean squared amplitude compares with the threshold; the mean of an
\* empty frame is 0.0/0.0 = NaN, which compares false with everything
EnergyCmp(frame) ==
    IF frame = <<>> THEN "nan"
    ELSE IF SumSq(frame) > ENERGY_THRESHOLD * Len(frame) THEN "above"
    ELSE IF SumSq(frame) = ENERGY_THRESHOLD * Len(frame) THEN "equal"
    ELSE "below"

\* a classifier that takes every frame not below the threshold for speech
IsSpeechUnlessBelow(frame) == EnergyCmp(frame) # "below"
\* a classifier that takes a frame at the threshold for speech
IsSpeechAtThreshold(frame) == EnergyCmp(frame) \in {"above", "equal"}
\* let is_speech = energy > self.energy_threshold
IsSpeech(frame) == EnergyCmp(frame) = "above"

\* a comparison that lets the silence run one frame too long
SilenceReachedLate(count, max) == count > max
\* if self.silence_count_ms >= self.max_silence_duration_ms
SilenceReached(count, max) == count >= max

\* (self.current_segment.lock().unwrap().len() * 1000) as u32 / self.sample_rate
SpeechDurationMs(segment, rate) == (Len(segment) * 1000) \div rate

\* a check that drops a segment of exactly the minimum duration
LongEnoughStrictly(duration, min) == duration > min
\* a check that lets every segment through
LongEnoughAlways(duration, min) == TRUE
\* if speech_duration_ms >= self.min_speech_duration_ms
LongEnough(duration, min) == duration >= min

\* Vad::new(sample_rate, frame_duration_ms)
VadNew(rate, duration) ==
    /\ sample_rate = rate
    /\ frame_duration_ms = duration
    /\ segment_callback = FALSE
    /\ current_segment = <<>>
    /\ min_speech_duration_ms = DEFAULT_MIN_SPEECH_MS
    /\ max_silence_duration_ms = DEFAULT_MAX_SILENCE_MS
    /\ silence_count_ms = 0
    /\ in_speech = FALSE
    /\ lastResult = NoResult
    /\ heard = <<>>
    /\ silentMs = 0
    /\ stream = FreshStream

VadInit == \E rate \in SampleRates, duration \in FrameDurations : VadNew(rate, duration)

\* set_speech_segment_callback
SetSpeechSegmentCallback ==
    /\ ~segment_callback
    /\ segment_callback' = TRUE
    /\ UNCHANGED <<sample_rate, frame_duration_ms, current_segment, min_speech_duration_ms,
                   max_silence_duration_ms, silence_count_ms, in_speech, lastResult,
                   heard, silentMs, stream>>
    /\ UNCHANGED notVad

\* set_min_speech_duration
SetMinSpeechDuration(d) ==
    /\ min_speech_duration_ms' = d
    /\ UNCHANGED <<sample_rate, frame_duration_ms, segment_callback, current_segment,
                   max_silence_duration_ms, silence_count_ms, in_speech, lastResult,
                   heard, silentMs, stream>>
    /\ UNCHANGED notVad

\* set_max_silence_duration
SetMaxSilenceDuration(d) ==
    /\ max_silence_duration_ms' = d
    /\ UNCHANGED <<sample_rate, frame_duration_ms, segment_callback, current_segment,
                   min_speech_duration_ms, silence_count_ms, in_speech, lastResult,
                   heard, silentMs, stream>>
    /\ UNCHANGED notVad

\* process_frame
\* a silence counter that every frame classified as speech resets
SilenceCountResetBySpeech(is_speech, speaking, count, frame_ms) ==
    IF ~is_speech /\ speaking THEN count + frame_ms
    ELSE IF is_speech THEN 0 ELSE count

\* process_frame: silence_count_ms afterwards
SilenceCount(is_speech, speaking, count, frame_ms) ==
    IF ~is_speech /\ speaking THEN count + frame_ms
    ELSE IF is_speech /\ ~speaking THEN 0 ELSE count

\* a start of speech on every frame classified as speech
IsStartOnSpeech(is_speech, speaking) == is_speech

\* process_frame: the frame is a start of speech
IsStart(is_speech, speaking) == is_speech /\ ~speaking

ProcessFrame(frame) ==
    LET is_speech == IsSpeech(frame)
        start == IsStart(is_speech, in_speech)
        counted == ~is_speech /\ in_speech
        count == SilenceCount(is_speech, in_speech, silence_count_ms, frame_duration_ms)
        end == counted /\ SilenceReached(count, max_silence_duration_ms)
        base == IF start THEN <<>> ELSE current_segment
        duration == SpeechDurationMs(current_segment, sample_rate)
        called == end /\ LongEnough(duration, min_speech_duration_ms) /\ segment_callback
        \* history, kept apart from the fields above
        heardNow == IF EnergyCmp(frame) = "above"
                    THEN (IF in_speech THEN heard ELSE <<>>) \o frame
                    ELSE heard
        silentNow == IF EnergyCmp(frame) = "above"
                     THEN (IF in_speech THEN silentMs ELSE 0)
                     ELSE (IF in_speech THEN silentMs + frame_duration_ms ELSE silentMs)
    IN
    /\ is_speech => Len(base) + Len(frame) <= MaxSegment
    /\ heard' = heardNow
    /\ in_speech' = IF start THEN TRUE ELSE IF end THEN FALSE ELSE in_speech
    /\ silence_count_ms' = count
    /\ current_segment' = IF is_speech THEN base \o frame
                          ELSE IF end THEN <<>> ELSE current_segment
    /\ lastResult' = [decision |-> IF is_speech THEN "Speech" ELSE "Silence",
                      is_start_of_speech |-> start,
                      is_end_of_speech |-> end,
                      cmp |-> EnergyCmp(frame),
                      was_in_speech |-> in_speech,
                      called |-> called,
                      passed |-> IF called THEN current_segment ELSE <<>>,
                      reached |-> silentNow >= max_silence_duration_ms,
                      short |-> (Len(heard) * 1000) \div sample_rate < min_speech_duration_ms,
                      was_open |-> stream.open]
    /\ silentMs' = silentNow
    /\ stream' = [quiet |-> stream.quiet /\ EnergyCmp(frame) # "above",
                  started |-> stream.started \/ start,
                  called |-> stream.called \/ called,
                  open |-> IF start THEN TRUE ELSE IF end THEN FALSE ELSE stream.open,
                  resumed |-> IF start THEN FALSE
                              ELSE stream.resumed
                                     \/ (in_speech /\ EnergyCmp(frame) = "above"
                                           /\ silentMs > 0)]
    /\ UNCHANGED <<sample_rate, frame_duration_ms, segment_callback,
                   min_speech_duration_ms, max_silence_duration_ms>>
    /\ UNCHANGED notVad

\* reset
VadReset ==
    /\ current_segment' = <<>>
    /\ silence_count_ms' = 0
    /\ in_speech' = FALSE
    /\ stream' = FreshStream
    /\ heard' = <<>>
    /\ silentMs' = 0
    /\ lastResult' = NoResult
    /\ UNCHANGED <<sample_rate, frame_duration_ms, segment_callback,
                   min_speech_duration_ms, max_silence_duration_ms>>
    /\ UNCHANGED notVad

VadNext ==
    \/ SetSpeechSegmentCallback
    \/ \E d \in DurationChoices : SetMinSpeechDuration(d)
    \/ \E d \in DurationChoices : SetMaxSilenceDuration(d)
    \/ \E frame \in Frames : ProcessFrame(frame)
    \/ VadReset

(***************************************************************************)
(* Properties of the Vad, checked under SpecVad.                           *)
(***************************************************************************)
\* C6: as long as no frame since the Vad was fresh or reset had a mean squared
\* amplitude above the threshold, no process_frame result has is_start_of_speech
\* set and the segment callback has not been invoked.
C6_QuietNeverStarts ==
    stream.quiet =>
        /\ ~stream.started /\ ~lastResult.is_start_of_speech
        /\ ~stream.called /\ ~lastResult.called
        /\ ~in_speech

\* C6 witness: a frame exactly at the threshold was processed, with a callback
\* registered, and the stream is still quiet
C6_Witness ==
    stream.quiet /\ lastResult.cmp = "equal" /\ segment_callback

C8_ShortSegmentDropped ==
    (lastResult.is_end_of_speech /\ lastResult.short) =>
        /\ ~lastResult.called
        /\ ~in_speech
        /\ current_segment = <<>>

\* C8 witness: a short utterance ended while a callback was registered
C8_Witness ==
    /\ lastResult.is_end_of_speech /\ lastResult.short
    /\ segment_callback /\ heard # <<>>

\* the elements of a sequence
Range(seq) == {seq[i] : i \in DOMAIN seq}

\* a recogniser whose process_audio reports a result that is not final
AsrProcessAudioPartial(initialized) ==
    IF ~initialized THEN <<>>
    ELSE <<[text |-> <<"asr.rs:92 text">>, confidence |-> 90,
            is_partial |-> TRUE, is_final |-> FALSE]>>

\* Asr::process_audio: nothing from a recogniser that is not initialized, else one
\* final result (a text is a sequence of pieces, a string literal of the source
\* is named by its place; confidences are in hundredths)
AsrProcessAudio(initialized) ==
    IF ~initialized THEN <<>>
    ELSE <<[text |-> <<"asr.rs:92 text">>, confidence |-> 90,
            is_partial |-> FALSE, is_final |-> TRUE]>>

\* Asr::process_frame
AsrProcessFrame(initialized) ==
    IF ~initialized
    THEN [text |-> <<>>, confidence |-> 0, is_partial |-> FALSE, is_final |-> FALSE]
    ELSE [text |-> <<"asr.rs:127 text">>, confidence |-> 85,
          is_partial |-> TRUE, is_final |-> FALSE]

\* Mt::translate
MtTranslate(source_text, source_lang, target_lang) ==
    [source_text |-> source_text,
     translated_text |-> <<"mt.rs:103 prefix">> \o source_text,
     source_language |-> source_lang, target_language |-> target_lang,
     confidence |-> 85, is_success |-> TRUE]

\* no result has reached the result callback (asr_final: the recogniser's result it
\* came from was final; mt_success: the translator's result it came from was a success)
NoneDelivered == [chunk |-> 0, direction |-> "", translated_text |-> <<>>,
                  asr_final |-> FALSE, mt_success |-> FALSE]

\* the direction the closure set_result_callback gave pipeline p puts on a result
DirectionTag(p) == IF p = "user_to_other" THEN "UserToOther" ELSE "OtherToUser"

(***************************************************************************)
(* BidirectionalTranslator and TranslationPipeline                         *)
(*                                                                         *)
(* set_result_callback, start, stop and update_language_pair take         *)
(* &mut self: no other method of the translator runs meanwhile, but the    *)
(* spawned translations do; update_language_pair takes one step per lock   *)
(* it acquires.  The &self methods may run concurrently; those that write  *)
(* the direction indicator and then use a pipeline take two steps, one per *)
(* lock.  Asr::process_audio returns one final result per chunk            *)
(* (engine/asr.rs:81-108), and Mt::translate always succeeds               *)
(* (engine/mt.rs:92-110).                                                  *)
(***************************************************************************)
Langs == {"en", "fr"}

\* the pairs of two different languages, as a caller gives them to new and to
\* update_language_pair
LanguagePairs == {p \in Langs \X Langs : p[1] # p[2]}
Pipelines == {"user_to_other", "other_to_user"}
NoUpdate == [step |-> "idle", user_lang |-> "", other_lang |-> ""]
NoLifecycleCall == [op |-> "new", was_running |-> FALSE, returned |-> "Ok"]
NoneHanded == [via |-> "", pipeline |-> "", direction |-> "", ran |-> FALSE]

\* the pipeline the audio-capture data callback picks for a direction (start)
PipelineFor(direction) ==
    IF direction = "UserToOther" THEN "user_to_other" ELSE "other_to_user"

\* TranslationPipeline::set_source_language; set_target_language
SetLanguages(pl, src, tgt) ==
    [pl EXCEPT !.source_language = src, !.asr_language = src, !.target_language = tgt]

\* no &self call is in progress, so a &mut self method may run
Exclusive == update = NoUpdate /\ inflight = {}

\* one more &self call may begin
CanCall == update = NoUpdate /\ Cardinality(inflight) < NumCallers

\* BidirectionalTranslator::new(user_lang, other_lang)
BTNew(user_lang, other_lang) ==
    /\ current_pair = [source |-> user_lang, target |-> other_lang]
    /\ current_direction = "UserToOther"
    /\ running = FALSE
    /\ result_callback = FALSE
    /\ capturing = FALSE
    /\ pipeline = [p \in Pipelines |->
            SetLanguages([source_language |-> "zh", target_language |-> "en",
                          asr_language |-> "auto", running |-> FALSE,
                          translation_callback |-> FALSE],
                         IF p = "user_to_other" THEN user_lang ELSE other_lang,
                         IF p = "user_to_other" THEN other_lang ELSE user_lang)]
    /\ inflight = {}
    /\ update = NoUpdate
    /\ tasks = {}
    /\ delivered = NoneDelivered
    /\ handed = NoneHanded
    /\ nextChunk = 1
    /\ lastPair = [source |-> user_lang, target |-> other_lang, by |-> "new", updates |-> 0]
    /\ bt_call = NoLifecycleCall

BTInit == \E p \in LanguagePairs : BTNew(p[1], p[2])

\* set_result_callback
SetResultCallback ==
    /\ Exclusive
    /\ result_callback' = TRUE
    /\ pipeline' = [p \in Pipelines |-> [pipeline[p] EXCEPT !.translation_callback = TRUE]]
    /\ UNCHANGED <<current_pair, current_direction, running, capturing, inflight, update, tasks,
                   handed, nextChunk, lastPair>>
    /\ UNCHANGED delivered
    /\ UNCHANGED bt_call
    /\ UNCHANGED notBT

\* start: on a running translator it returns Ok at once; otherwise both pipelines
\* start, the capture starts and running is set
BTStart ==
    /\ Exclusive
    /\ IF running
       THEN UNCHANGED <<pipeline, capturing, running>>
       ELSE /\ pipeline' = [p \in Pipelines |-> [pipeline[p] EXCEPT !.running = TRUE]]
            /\ capturing' = TRUE
            /\ running' = TRUE
    /\ bt_call' = [op |-> "start", was_running |-> running, returned |-> "Ok"]
    /\ UNCHANGED <<current_pair, current_direction, result_callback, inflight, update, tasks,
                   handed, nextChunk, lastPair>>
    /\ UNCHANGED delivered
    /\ UNCHANGED notBT

\* a stop that drops the translations not yet run
BTStopCancels ==
    /\ Exclusive
    /\ IF ~running
       THEN /\ bt_call' = [op |-> "stop", was_running |-> FALSE, returned |-> "Ok"]
            /\ UNCHANGED <<capturing, update, tasks>>
       ELSE /\ capturing' = FALSE
            /\ update' = [NoUpdate EXCEPT !.step = "stop_capture"]
            /\ bt_call' = [op |-> "stop", was_running |-> TRUE, returned |-> "pending"]
            /\ tasks' = {}
    /\ UNCHANGED <<current_pair, current_direction, running, result_callback, pipeline,
                   inflight, handed, nextChunk, lastPair>>
    /\ UNCHANGED delivered
    /\ UNCHANGED notBT

\* a stop that stops the user-to-other pipeline before the capture
BTStopPipelineFirst ==
    /\ Exclusive
    /\ IF ~running
       THEN /\ bt_call' = [op |-> "stop", was_running |-> FALSE, returned |-> "Ok"]
            /\ UNCHANGED <<pipeline, update>>
       ELSE /\ pipeline' = [pipeline EXCEPT !["user_to_other"].running = FALSE]
            /\ update' = [NoUpdate EXCEPT !.step = "stop_capture"]
            /\ bt_call' = [op |-> "stop", was_running |-> TRUE, returned |-> "pending"]
    /\ UNCHANGED <<current_pair, current_direction, running, result_callback, capturing,
                   inflight, tasks, handed, nextChunk, lastPair>>
    /\ UNCHANGED delivered
    /\ UNCHANGED notBT

\* stop, first statements: on a stopped translator it returns Ok at once; otherwise
\* the capture stops
BTStop ==
    /\ Exclusive
    /\ IF ~running
       THEN /\ bt_call' = [op |-> "stop", was_running |-> FALSE, returned |-> "Ok"]
            /\ UNCHANGED <<capturing, update>>
       ELSE /\ capturing' = FALSE
            /\ update' = [NoUpdate EXCEPT !.step = "stop_capture"]
            /\ bt_call' = [op |-> "stop", was_running |-> TRUE, returned |-> "pending"]
    /\ UNCHANGED <<current_pair, current_direction, running, result_callback, pipeline,
                   inflight, tasks, handed, nextChunk, lastPair>>
    /\ UNCHANGED delivered
    /\ UNCHANGED notBT

\* stop, next statement: the user-to-other pipeline stops
BTStopUserToOther ==
    /\ update.step = "stop_capture"
    /\ pipeline' = [pipeline EXCEPT !["user_to_other"].running = FALSE]
    /\ update' = [update EXCEPT !.step = "stop_user_to_other"]
    /\ UNCHANGED <<current_pair, current_direction, running, result_callback, capturing,
                   inflight, tasks, handed, nextChunk, lastPair, bt_call>>
    /\ UNCHANGED delivered
    /\ UNCHANGED notBT

\* stop, last statements: the other-to-user pipeline stops, running is cleared, Ok
BTStopOtherToUser ==
    /\ update.step = "stop_user_to_other"
    /\ pipeline' = [pipeline EXCEPT !["other_to_user"].running = FALSE]
    /\ running' = FALSE
    /\ update' = NoUpdate
    /\ bt_call' = [bt_call EXCEPT !.returned = "Ok"]
    /\ UNCHANGED <<current_pair, current_direction, result_callback, capturing,
                   inflight, tasks, handed, nextChunk, lastPair>>
    /\ UNCHANGED delivered
    /\ UNCHANGED notBT

\* update_language_pair(user_lang, other_lang), first block: the pair is stored
UpdatePair(user_lang, other_lang) ==
    /\ Exclusive
    /\ lastPair.updates < MaxUpdates
    /\ current_pair' = [source |-> user_lang, target |-> other_lang]
    /\ update' = [step |-> "pair", user_lang |-> user_lang, other_lang |-> other_lang]
    /\ UNCHANGED <<current_direction, running, result_callback, capturing, pipeline,
                   inflight, tasks, handed, nextChunk, lastPair>>
    /\ UNCHANGED delivered
    /\ UNCHANGED bt_call
    /\ UNCHANGED notBT

\* a second block that sets the source language of the user-to-other pipeline only
UpdateUserToOtherSourceOnly ==
    /\ update.step = "pair"
    /\ pipeline' = [pipeline EXCEPT !["user_to_other"] =
                        SetLanguages(@, update.user_lang, @.target_language)]
    /\ update' = [update EXCEPT !.step = "user_to_other"]
    /\ UNCHANGED <<current_pair, current_direction, running, result_callback, capturing,
                   inflight, tasks, handed, nextChunk, lastPair>>
    /\ UNCHANGED delivered
    /\ UNCHANGED bt_call
    /\ UNCHANGED notBT

\* update_language_pair, second block: the user-to-other pipeline is locked and set
UpdateUserToOther ==
    /\ update.step = "pair"
    /\ pipeline' = [pipeline EXCEPT !["user_to_other"] =
                        SetLanguages(@, update.user_lang, update.other_lang)]
    /\ update' = [update EXCEPT !.step = "user_to_other"]
    /\ UNCHANGED <<current_pair, current_direction, running, result_callback, capturing,
                   inflight, tasks, handed, nextChunk, lastPair>>
    /\ UNCHANGED delivered
    /\ UNCHANGED bt_call
    /\ UNCHANGED notBT

\* a third block that gives the other-to-user pipeline the same orientation
UpdateOtherToUserUnswapped ==
    /\ update.step = "user_to_other"
    /\ pipeline' = [pipeline EXCEPT !["other_to_user"] =
                        SetLanguages(@, update.user_lang, update.other_lang)]
    /\ update' = NoUpdate
    /\ lastPair' = [source |-> update.user_lang, target |-> update.other_lang,
                    by |-> "update", updates |-> lastPair.updates + 1]
    /\ UNCHANGED <<current_pair, current_direction, running, result_callback, capturing,
                   inflight, tasks, handed, nextChunk>>
    /\ UNCHANGED delivered
    /\ UNCHANGED bt_call
    /\ UNCHANGED notBT

\* update_language_pair, third block: the other-to-user pipeline is locked and set,
\* and the call returns
UpdateOtherToUser ==
    /\ update.step = "user_to_other"
    /\ pipeline' = [pipeline EXCEPT !["other_to_user"] =
                        SetLanguages(@, update.other_lang, update.user_lang)]
    /\ update' = NoUpdate
    /\ lastPair' = [source |-> update.user_lang, target |-> update.other_lang,
                    by |-> "update", updates |-> lastPair.updates + 1]
    /\ UNCHANGED <<current_pair, current_direction, running, result_callback, capturing,
                   inflight, tasks, handed, nextChunk>>
    /\ UNCHANGED delivered
    /\ UNCHANGED bt_call
    /\ UNCHANGED notBT

\* get_current_language_pair
get_current_language_pair == current_pair

\* switch_direction
SwitchDirection ==
    /\ update = NoUpdate
    /\ current_direction' = IF current_direction = "UserToOther" THEN "OtherToUser"
                            ELSE "UserToOther"
    /\ UNCHANGED <<current_pair, running, result_callback, capturing, pipeline, inflight, update,
                   tasks, handed, nextChunk, lastPair>>
    /\ UNCHANGED delivered
    /\ UNCHANGED bt_call
    /\ UNCHANGED notBT

\* switch_to_user_mode
SwitchToUserMode ==
    /\ update = NoUpdate
    /\ current_direction' = "UserToOther"
    /\ UNCHANGED <<current_pair, running, result_callback, capturing, pipeline, inflight, update,
                   tasks, handed, nextChunk, lastPair>>
    /\ UNCHANGED delivered
    /\ UNCHANGED bt_call
    /\ UNCHANGED notBT

\* TranslationPipeline::process_audio on pipeline p, and the on_asr_result it calls:
\* the tasks afterwards
ProcessAudio(p, chunk) ==
    IF pipeline[p].running
    THEN tasks \cup {[chunk |-> chunk, pipeline |-> p,
                      source_text |-> r.text,
                      source_lang |-> pipeline[p].source_language,
                      target_lang |-> pipeline[p].target_language,
                      callback |-> pipeline[p].translation_callback,
                      asr_final |-> r.is_final] :
                        r \in {x \in Range(AsrProcessAudio(TRUE)) : x.is_final}}
    ELSE tasks

\* the same call's non-final branch of on_asr_result: what the result callback has
\* received afterwards
DeliveredBy(p, chunk) ==
    LET others == {x \in Range(AsrProcessAudio(TRUE)) : ~x.is_final} IN
    IF pipeline[p].running /\ others # {} /\ pipeline[p].translation_callback
    THEN [chunk |-> chunk, direction |-> DirectionTag(p), translated_text |-> <<>>,
          asr_final |-> FALSE, mt_success |-> FALSE]
    ELSE delivered

\* the record of a process_audio call
Handed(p, via) ==
    [via |-> via, pipeline |-> p, direction |-> current_direction,
     ran |-> pipeline[p].running]

\* the first statement of handle_outbound_audio, handle_inbound_audio,
\* simulate_user_speaking, simulate_other_speaking: the direction indicator is set
SetDirection(op) ==
    /\ CanCall
    /\ nextChunk <= MaxChunks
    /\ current_direction' = IF op \in {"outbound", "sim_user"} THEN "UserToOther"
                            ELSE "OtherToUser"
    /\ inflight' = inflight \cup {[op |-> op, chunk |-> nextChunk]}
    /\ nextChunk' = nextChunk + 1
    /\ UNCHANGED <<current_pair, running, result_callback, capturing, pipeline, tasks,
                   handed, lastPair>>
    /\ UNCHANGED update
    /\ UNCHANGED delivered
    /\ UNCHANGED bt_call
    /\ UNCHANGED notBT

\* a submission that asks the direction indicator which pipeline to use
SubmitByIndicator(req) ==
    /\ req \in inflight
    /\ req.op \in {"outbound", "inbound"}
    /\ LET p == PipelineFor(current_direction) IN
        /\ tasks' = ProcessAudio(p, req.chunk)
        /\ delivered' = DeliveredBy(p, req.chunk)
        /\ handed' = Handed(p, req.op)
    /\ inflight' = inflight \ {req}
    /\ UNCHANGED <<current_pair, current_direction, running, result_callback, capturing,
                   pipeline, nextChunk, lastPair>>
    /\ UNCHANGED update
    /\ UNCHANGED bt_call
    /\ UNCHANGED notBT

\* the rest of handle_outbound_audio / handle_inbound_audio: the pipeline is locked
\* and handed the chunk
SubmitExplicit(req) ==
    /\ req \in inflight
    /\ req.op \in {"outbound", "inbound"}
    /\ LET p == IF req.op = "outbound" THEN "user_to_other" ELSE "other_to_user" IN
        /\ tasks' = ProcessAudio(p, req.chunk)
        /\ delivered' = DeliveredBy(p, req.chunk)
        /\ handed' = Handed(p, req.op)
    /\ inflight' = inflight \ {req}
    /\ UNCHANGED <<current_pair, current_direction, running, result_callback, capturing,
                   pipeline, nextChunk, lastPair>>
    /\ UNCHANGED update
    /\ UNCHANGED bt_call
    /\ UNCHANGED notBT

\* a capture data callback that is told which caller the chunk came from
SimulateByCaller(req) ==
    /\ req \in inflight
    /\ req.op \in {"sim_user", "sim_other"}
    /\ IF capturing
       THEN LET p == IF req.op = "sim_user" THEN "user_to_other" ELSE "other_to_user" IN
              /\ tasks' = ProcessAudio(p, req.chunk)
              /\ delivered' = DeliveredBy(p, req.chunk)
              /\ handed' = Handed(p, req.op)
       ELSE UNCHANGED <<tasks, delivered, handed>>
    /\ inflight' = inflight \ {req}
    /\ UNCHANGED <<current_pair, current_direction, running, result_callback, capturing,
                   pipeline, nextChunk, lastPair>>
    /\ UNCHANGED update
    /\ UNCHANGED bt_call
    /\ UNCHANGED notBT

\* the rest of simulate_user_speaking / simulate_other_speaking:
\* AudioCapture::simulate_audio_input and the data callback start() installed
SimulateAudioInput(req) ==
    /\ req \in inflight
    /\ req.op \in {"sim_user", "sim_other"}
    /\ IF capturing
       THEN LET p == PipelineFor(current_direction) IN
              /\ tasks' = ProcessAudio(p, req.chunk)
              /\ delivered' = DeliveredBy(p, req.chunk)
              /\ handed' = Handed(p, req.op)
       ELSE UNCHANGED <<tasks, delivered, handed>>
    /\ inflight' = inflight \ {req}
    /\ UNCHANGED <<current_pair, current_direction, running, result_callback, capturing,
                   pipeline, nextChunk, lastPair>>
    /\ UNCHANGED update
    /\ UNCHANGED bt_call
    /\ UNCHANGED notBT

\* a handle_incoming_audio that asks the direction indicator which pipeline to use
HandleIncomingAudioByIndicator(is_user_speaking) ==
    /\ CanCall
    /\ nextChunk <= MaxChunks
    /\ nextChunk' = nextChunk + 1
    /\ IF running
       THEN LET p == PipelineFor(current_direction)
                via == IF is_user_speaking THEN "incoming_user" ELSE "incoming_other" IN
              /\ tasks' = ProcessAudio(p, nextChunk)
              /\ delivered' = DeliveredBy(p, nextChunk)
              /\ handed' = Handed(p, via)
       ELSE UNCHANGED <<tasks, delivered, handed>>
    /\ UNCHANGED <<current_pair, current_direction, running, result_callback, capturing,
                   pipeline, inflight, update, lastPair>>
    /\ UNCHANGED bt_call
    /\ UNCHANGED notBT

\* handle_incoming_audio(audio_data, is_user_speaking)
HandleIncomingAudio(is_user_speaking) ==
    /\ CanCall
    /\ nextChunk <= MaxChunks
    /\ nextChunk' = nextChunk + 1
    /\ IF running
       THEN LET p == IF is_user_speaking THEN "user_to_other" ELSE "other_to_user"
                via == IF is_user_speaking THEN "incoming_user" ELSE "incoming_other" IN
              /\ tasks' = ProcessAudio(p, nextChunk)
              /\ delivered' = DeliveredBy(p, nextChunk)
              /\ handed' = Handed(p, via)
       ELSE UNCHANGED <<tasks, delivered, handed>>
    /\ UNCHANGED <<current_pair, current_direction, running, result_callback, capturing,
                   pipeline, inflight, update, lastPair>>
    /\ UNCHANGED bt_call
    /\ UNCHANGED notBT

\* a translation task whose result is tagged with the direction indicator
TranslationTaskByIndicator(task) ==
    /\ task \in tasks
    /\ tasks' = tasks \ {task}
    /\ LET mt_result == MtTranslate(task.source_text, task.source_lang, task.target_lang) IN
         delivered' = IF task.callback
                      THEN [chunk |-> task.chunk, direction |-> current_direction,
                            translated_text |-> mt_result.translated_text,
                            asr_final |-> task.asr_final,
                            mt_success |-> mt_result.is_success]
                      ELSE delivered
    /\ UNCHANGED <<current_pair, current_direction, running, result_callback, capturing,
                   pipeline, inflight, update, handed, nextChunk, lastPair>>
    /\ UNCHANGED bt_call
    /\ UNCHANGED notBT

\* a spawned translation runs to its end: Mt::translate, then the pipeline's callback
\* as on_asr_result captured it, which builds the BidirectionalResult
TranslationTask(task) ==
    /\ task \in tasks
    /\ tasks' = tasks \ {task}
    /\ LET mt_result == MtTranslate(task.source_text, task.source_lang, task.target_lang) IN
         delivered' = IF task.callback
                      THEN [chunk |-> task.chunk, direction |-> DirectionTag(task.pipeline),
                            translated_text |-> mt_result.translated_text,
                            asr_final |-> task.asr_final,
                            mt_success |-> mt_result.is_success]
                      ELSE delivered
    /\ UNCHANGED <<current_pair, current_direction, running, result_callback, capturing,
                   pipeline, inflight, update, handed, nextChunk, lastPair>>
    /\ UNCHANGED bt_call
    /\ UNCHANGED notBT

BTNext ==
    \/ SetResultCallback
    \/ BTStart
    \/ BTStop
    \/ BTStopUserToOther
    \/ BTStopOtherToUser
    \/ \E p \in LanguagePairs : UpdatePair(p[1], p[2])
    \/ UpdateUserToOther
    \/ UpdateOtherToUser
    \/ SwitchDirection
    \/ SwitchToUserMode
    \/ \E op \in {"outbound", "inbound", "sim_user", "sim_other"} : SetDirection(op)
    \/ \E req \in inflight : SubmitExplicit(req)
    \/ \E req \in inflight : SimulateAudioInput(req)
    \/ \E flag \in BOOLEAN : HandleIncomingAudio(flag)
    \/ \E task \in tasks : TranslationTask(task)

(***************************************************************************)
(* Properties of the BidirectionalTranslator, checked under SpecBT.        *)
(***************************************************************************)
\* C9: after new(a,b) and after every completed update_language_pair(a,b), in every
\* state outside an update,
\* get_current_language_pair is {source: a, target: b}, the user-to-other pipeline
\* holds (a, b) and the other-to-user pipeline holds the mirror image (b, a).
C9_MirrorPair ==
    update = NoUpdate =>
    /\ get_current_language_pair = [source |-> lastPair.source, target |-> lastPair.target]
    /\ pipeline["user_to_other"].source_language = lastPair.source
    /\ pipeline["user_to_other"].target_language = lastPair.target
    /\ pipeline["other_to_user"].source_language = lastPair.target
    /\ pipeline["other_to_user"].target_language = lastPair.source

\* C9 witness: a completed update to a pair of two different languages, made while
\* the translator runs and a translation is still in flight
C9_Witness ==
    /\ update = NoUpdate
    /\ lastPair.by = "update"
    /\ lastPair.source # lastPair.target
    /\ running /\ tasks # {}

\* C10: whatever the direction indicator holds when the pipeline is reached, and
\* whatever other submissions are in progress, handle_outbound_audio hands its chunk
\* to the user-to-other pipeline only and handle_inbound_audio to the other-to-user
\* pipeline only.
C10_ExplicitRouting ==
    /\ handed.via = "outbound" => handed.pipeline = "user_to_other"
    /\ handed.via = "inbound" => handed.pipeline = "other_to_user"

\* C10 witness: an outbound chunk has just reached a running pipeline while the
\* indicator said OtherToUser, set by an inbound call that is still in progress
C10_Witness ==
    /\ handed.via = "outbound" /\ handed.ran
    /\ handed.direction = "OtherToUser"
    /\ \E req \in inflight : req.op = "inbound"

(***************************************************************************)
(* AudioSwitchboard                                                        *)
(*                                                                         *)
(* new, initialize_devices, start and stop take &mut self (start has no    *)
(* await that yields) and are one step each.  The switchboard never starts *)
(* its translator and gives it no result callback, so both pipelines stay  *)
(* non-Running.  An input callback is the closure start() hands to         *)
(* open_input_stream; the device behind the AudioDevice trait calls it per *)
(* chunk.  (MockAudioDevice discards the closure and nothing calls         *)
(* VirtualAudioDevice::simulate_input_data here: in this build only the    *)
(* simulate_* methods deliver audio.)  Every task reaches the translator   *)
(* through its AsyncMutex.                                                 *)
(***************************************************************************)
Endpoints == {"physical_mic", "physical_headphones", "virtual_cable_input",
              "virtual_cable_output"}

NoDevice == [present |-> FALSE, is_recording |-> FALSE, input_callback |-> FALSE,
             in_opens |-> 0, in_closes |-> 0, out_opens |-> 0, out_closes |-> 0]

\* MockAudioDevice::new, VirtualAudioDevice::new
FreshDevice == [NoDevice EXCEPT !.present = TRUE]

\* enum AudioControl
Messages ==
    {[kind |-> k, src |-> "", tgt |-> ""] :
        k \in {"Start", "Stop", "ToggleMute", "StatusRequest"}}
    \cup {[kind |-> "SetLanguagePair", src |-> a, tgt |-> b] : a, b \in Langs}

\* the messages sent here: one of the kinds the loop only logs, and every pair of
\* two different languages
ControlInputs ==
    {m \in Messages : m.kind = "ToggleMute" \/ (m.kind = "SetLanguagePair" /\ m.src # m.tgt)}

\* every kind of message, the pairs being of two different languages
AllControlInputs == {m \in Messages : m.kind # "SetLanguagePair" \/ m.src # m.tgt}

NoMessage == [kind |-> "", src |-> "", tgt |-> ""]

\* who holds the AsyncMutex around the translator
Unlocked == [holder |-> "free", chunk |-> 0]

\* the fields AudioSwitchboard::new sets, the translator apart
SBFieldsFor(limit) ==
    /\ sb_status = "Idle"
    /\ devices = [e \in Endpoints |-> NoDevice]
    /\ control_queue = <<>>
    /\ control_rx = "stored"
    /\ loop_spawned = 0
    /\ loop = [pc |-> "none", msg |-> NoMessage]
    /\ translator_lock = Unlocked
    /\ spawned = {}
    /\ lifecycle = [calls |-> 0, last |-> "new", before |-> "new"]
    /\ sent = 0
    /\ last_callback = [origin |-> "", holder |-> "free"]
    /\ last_origin = [origin |-> "", by |-> ""]
    /\ last_control = NoMessage
    /\ queue_seq = <<>>
    /\ last_seq = 0
    /\ consumers = 0

\* AudioSwitchboard::new(user_language, other_language)
    /\ chunk_limit = limit

SBFields == SBFieldsFor(MaxAudio)

SBNew(user_language, other_language) ==
    /\ BTNew(user_language, other_language)
    /\ SBFields

\* the switchboard of the repository's tests
SBInit == SBNew("zh", "en")

\* no simulate_* future borrows the switchboard, so a &mut self method may run
SBExclusive == \A t \in spawned : t.by # "simulate"

Called(op) == [calls |-> lifecycle.calls + 1, last |-> op, before |-> lifecycle.last]

\* initialize_devices: four new devices replace whatever was there
InitializeDevices ==
    /\ SBExclusive
    /\ lifecycle.calls < MaxLifecycle
    /\ devices' = [e \in Endpoints |-> FreshDevice]
    /\ lifecycle' = Called("initialize")
    /\ UNCHANGED <<sb_status, control_queue, control_rx, loop_spawned, loop,
                   translator_lock, spawned, sent, last_callback, last_origin,
                   last_control>>
    /\ UNCHANGED sbHistory
    /\ UNCHANGED <<btVars, notSB>>

\* the devices after initialize_devices, setup_outbound_pipeline, setup_inbound_pipeline
Opened(e) ==
    IF e \in {"physical_mic", "virtual_cable_output"}
    THEN [FreshDevice EXCEPT !.input_callback = TRUE, !.in_opens = 1,
                             !.is_recording = TRUE]
    ELSE [FreshDevice EXCEPT !.out_opens = 1]

\* start: status, initialize_devices, both setups, start_control_loop
StartSB ==
    /\ SBExclusive
    /\ lifecycle.calls < MaxLifecycle
    /\ sb_status' = "Idle"
    /\ devices' = [e \in Endpoints |-> Opened(e)]
    /\ loop_spawned' = loop_spawned + 1
    /\ lifecycle' = Called("start")
    /\ UNCHANGED <<control_queue, control_rx, loop, translator_lock, spawned, sent,
                   last_callback, last_origin, last_control>>
    /\ UNCHANGED sbHistory
    /\ UNCHANGED <<btVars, notSB>>

\* a stop that forgets the headphones
ClosedButHeadphones(e) ==
    LET d == devices[e] IN
    IF ~d.present \/ e = "physical_headphones" THEN d
    ELSE IF e = "virtual_cable_input"
    THEN [d EXCEPT !.is_recording = FALSE, !.in_closes = @ + 1, !.out_closes = @ + 1]
    ELSE [d EXCEPT !.is_recording = FALSE, !.in_closes = @ + 1]

\* what stop does to endpoint e
Closed(e) ==
    LET d == devices[e] IN
    IF ~d.present THEN d
    ELSE IF e = "physical_headphones" THEN [d EXCEPT !.out_closes = @ + 1]
    ELSE IF e = "virtual_cable_input"
    THEN [d EXCEPT !.is_recording = FALSE, !.in_closes = @ + 1, !.out_closes = @ + 1]
    ELSE [d EXCEPT !.is_recording = FALSE, !.in_closes = @ + 1]

\* stop: status, then every device that is Some is stopped and closed; the control
\* loop and the spawned tasks are left alone
StopSB ==
    /\ SBExclusive
    /\ lifecycle.calls < MaxLifecycle
    /\ sb_status' = "Idle"
    /\ devices' = [e \in Endpoints |-> Closed(e)]
    /\ lifecycle' = Called("stop")
    /\ UNCHANGED <<control_queue, control_rx, loop_spawned, loop, translator_lock,
                   spawned, sent, last_callback, last_origin, last_control>>
    /\ UNCHANGED sbHistory
    /\ UNCHANGED <<btVars, notSB>>

\* get_status
get_status == sb_status

\* send_control
SendControl(msg) ==
    /\ sent < MaxControl
    /\ control_queue' = Append(control_queue, msg)
    /\ sent' = sent + 1
    /\ UNCHANGED <<sb_status, devices, control_rx, loop_spawned, loop, translator_lock,
                   spawned, lifecycle, last_callback, last_origin, last_control>>
    /\ queue_seq' = Append(queue_seq, sent + 1)
    /\ UNCHANGED <<last_seq, consumers, chunk_limit>>
    /\ UNCHANGED <<btVars, notSB>>

\* a task or caller that will await the translator's lock and then call
\* handle_outbound_audio (op "outbound") or handle_inbound_audio (op "inbound")
Pending(origin, by, op) == [chunk |-> nextChunk, origin |-> origin, by |-> by, op |-> op]

\* a microphone callback that hands its chunk to the inbound handler
MicCallbackInbound ==
    /\ devices["physical_mic"].input_callback
    /\ nextChunk <= chunk_limit
    /\ spawned' = spawned \cup {Pending("mic", "callback", "inbound")}
    /\ nextChunk' = nextChunk + 1
    /\ last_callback' = [origin |-> "mic", holder |-> translator_lock.holder]
    /\ UNCHANGED <<sb_status, devices, control_queue, control_rx, loop_spawned, loop,
                   translator_lock, lifecycle, sent, last_origin, last_control>>
    /\ UNCHANGED <<current_pair, current_direction, running, result_callback, capturing,
                   pipeline, inflight, update, tasks, handed, lastPair>>
    /\ UNCHANGED delivered
    /\ UNCHANGED bt_call
    /\ UNCHANGED sbHistory
    /\ UNCHANGED notSB

\* the closure setup_outbound_pipeline gives the microphone: it clones the chunk,
\* spawns a task and returns
MicCallback ==
    /\ devices["physical_mic"].input_callback
    /\ nextChunk <= chunk_limit
    /\ spawned' = spawned \cup {Pending("mic", "callback", "outbound")}
    /\ nextChunk' = nextChunk + 1
    /\ last_callback' = [origin |-> "mic", holder |-> translator_lock.holder]
    /\ UNCHANGED <<sb_status, devices, control_queue, control_rx, loop_spawned, loop,
                   translator_lock, lifecycle, sent, last_origin, last_control>>
    /\ UNCHANGED <<current_pair, current_direction, running, result_callback, capturing,
                   pipeline, inflight, update, tasks, handed, lastPair>>
    /\ UNCHANGED delivered
    /\ UNCHANGED bt_call
    /\ UNCHANGED sbHistory
    /\ UNCHANGED notSB

\* a loopback callback that takes the translator's lock itself before it returns
LoopbackCallbackWaits ==
    /\ devices["virtual_cable_output"].input_callback
    /\ nextChunk <= chunk_limit
    /\ translator_lock = Unlocked
    /\ spawned' = spawned \cup {Pending("loopback", "callback", "inbound")}
    /\ nextChunk' = nextChunk + 1
    /\ last_callback' = [origin |-> "loopback", holder |-> translator_lock.holder]
    /\ UNCHANGED <<sb_status, devices, control_queue, control_rx, loop_spawned, loop,
                   translator_lock, lifecycle, sent, last_origin, last_control>>
    /\ UNCHANGED <<current_pair, current_direction, running, result_callback, capturing,
                   pipeline, inflight, update, tasks, handed, lastPair>>
    /\ UNCHANGED delivered
    /\ UNCHANGED bt_call
    /\ UNCHANGED sbHistory
    /\ UNCHANGED notSB

\* the closure setup_inbound_pipeline gives the loopback endpoint
LoopbackCallback ==
    /\ devices["virtual_cable_output"].input_callback
    /\ nextChunk <= chunk_limit
    /\ spawned' = spawned \cup {Pending("loopback", "callback", "inbound")}
    /\ nextChunk' = nextChunk + 1
    /\ last_callback' = [origin |-> "loopback", holder |-> translator_lock.holder]
    /\ UNCHANGED <<sb_status, devices, control_queue, control_rx, loop_spawned, loop,
                   translator_lock, lifecycle, sent, last_origin, last_control>>
    /\ UNCHANGED <<current_pair, current_direction, running, result_callback, capturing,
                   pipeline, inflight, update, tasks, handed, lastPair>>
    /\ UNCHANGED delivered
    /\ UNCHANGED bt_call
    /\ UNCHANGED sbHistory
    /\ UNCHANGED notSB

\* simulate_physical_mic_input / simulate_system_loopback_input, up to the await
\* on the translator's lock
SimulateInput(origin) ==
    /\ nextChunk <= chunk_limit
    /\ spawned' = spawned \cup
          {Pending(origin, "simulate", IF origin = "mic" THEN "outbound" ELSE "inbound")}
    /\ nextChunk' = nextChunk + 1
    /\ UNCHANGED <<sb_status, devices, control_queue, control_rx, loop_spawned, loop,
                   translator_lock, lifecycle, sent, last_callback, last_origin,
                   last_control>>
    /\ UNCHANGED <<current_pair, current_direction, running, result_callback, capturing,
                   pipeline, inflight, update, tasks, handed, lastPair>>
    /\ UNCHANGED delivered
    /\ UNCHANGED bt_call
    /\ UNCHANGED sbHistory
    /\ UNCHANGED notSB

\* translator.lock().await succeeds and the handler sets the direction indicator
TaskLock(t) ==
    /\ t \in spawned
    /\ translator_lock = Unlocked
    /\ translator_lock' = [holder |-> "task", chunk |-> t.chunk]
    /\ current_direction' = IF t.op = "outbound" THEN "UserToOther" ELSE "OtherToUser"
    /\ inflight' = {[op |-> t.op, chunk |-> t.chunk]}
    /\ UNCHANGED <<sb_status, devices, control_queue, control_rx, loop_spawned, loop,
                   spawned, lifecycle, sent, last_callback, last_origin, last_control>>
    /\ UNCHANGED <<current_pair, running, result_callback, capturing, pipeline, update,
                   tasks, handed, nextChunk, lastPair>>
    /\ UNCHANGED delivered
    /\ UNCHANGED bt_call
    /\ UNCHANGED sbHistory
    /\ UNCHANGED notSB

\* the handler hands the chunk to its pipeline and the guard is dropped
TaskSubmit(t) ==
    /\ t \in spawned
    /\ translator_lock = [holder |-> "task", chunk |-> t.chunk]
    /\ LET p == IF t.op = "outbound" THEN "user_to_other" ELSE "other_to_user" IN
        /\ tasks' = ProcessAudio(p, t.chunk)
        /\ delivered' = DeliveredBy(p, t.chunk)
        /\ handed' = Handed(p, t.op)
    /\ inflight' = {}
    /\ translator_lock' = Unlocked
    /\ spawned' = spawned \ {t}
    /\ last_origin' = [origin |-> t.origin, by |-> t.by]
    /\ UNCHANGED <<sb_status, devices, control_queue, control_rx, loop_spawned, loop,
                   lifecycle, sent, last_callback, last_control>>
    /\ UNCHANGED <<current_pair, current_direction, running, result_callback, capturing,
                   pipeline, update, nextChunk, lastPair>>
    /\ UNCHANGED bt_call
    /\ UNCHANGED sbHistory
    /\ UNCHANGED notSB

\* a control-loop task that takes over the receiver whoever holds it
LoopTakeAnother ==
    /\ loop_spawned > 0
    /\ loop_spawned' = loop_spawned - 1
    /\ loop.pc \in {"none", "recv"}
    /\ control_rx' = "taken"
    /\ loop' = [pc |-> "recv", msg |-> NoMessage]
    /\ UNCHANGED <<sb_status, devices, control_queue, translator_lock, spawned,
                   lifecycle, sent, last_callback, last_origin, last_control>>
    /\ consumers' = consumers + 1
    /\ UNCHANGED <<queue_seq, last_seq, chunk_limit>>
    /\ UNCHANGED <<btVars, notSB>>

\* the task start_control_loop spawned takes the receiver, or finds it gone and ends
LoopTake ==
    /\ loop_spawned > 0
    /\ loop_spawned' = loop_spawned - 1
    /\ IF control_rx = "stored"
       THEN /\ control_rx' = "taken"
            /\ loop' = [pc |-> "recv", msg |-> NoMessage]
       ELSE UNCHANGED <<control_rx, loop>>
    /\ UNCHANGED <<sb_status, devices, control_queue, translator_lock, spawned,
                   lifecycle, sent, last_callback, last_origin, last_control>>
    /\ consumers' = IF control_rx = "stored" THEN consumers + 1 ELSE consumers
    /\ UNCHANGED <<queue_seq, last_seq, chunk_limit>>
    /\ UNCHANGED <<btVars, notSB>>

\* a control loop that only logs a SetLanguagePair as it does the other kinds
LoopRecvLogsOnly ==
    /\ loop.pc = "recv"
    /\ control_queue # <<>>
    /\ control_queue' = Tail(control_queue)
    /\ last_control' = Head(control_queue)
    /\ UNCHANGED loop
    /\ UNCHANGED <<sb_status, devices, control_rx, loop_spawned, translator_lock,
                   spawned, lifecycle, sent, last_callback, last_origin>>
    /\ queue_seq' = Tail(queue_seq)
    /\ last_seq' = Head(queue_seq)
    /\ UNCHANGED <<consumers, chunk_limit>>
    /\ UNCHANGED <<btVars, notSB>>

\* a control loop in which a Stop message closes the endpoints
LoopRecvStopActs ==
    /\ loop.pc = "recv"
    /\ control_queue # <<>>
    /\ control_queue' = Tail(control_queue)
    /\ IF Head(control_queue).kind = "SetLanguagePair"
       THEN /\ loop' = [pc |-> "lock", msg |-> Head(control_queue)]
            /\ UNCHANGED last_control
       ELSE /\ last_control' = Head(control_queue)
            /\ UNCHANGED loop
    /\ devices' = IF Head(control_queue).kind = "Stop"
                  THEN [e \in Endpoints |-> Closed(e)]
                  ELSE devices
    /\ UNCHANGED <<sb_status, control_rx, loop_spawned, translator_lock,
                   spawned, lifecycle, sent, last_callback, last_origin>>
    /\ queue_seq' = Tail(queue_seq)
    /\ last_seq' = Head(queue_seq)
    /\ UNCHANGED <<consumers, chunk_limit>>
    /\ UNCHANGED <<btVars, notSB>>

\* rx.recv().await returns a message; every kind but SetLanguagePair is only logged
LoopRecv ==
    /\ loop.pc = "recv"
    /\ control_queue # <<>>
    /\ control_queue' = Tail(control_queue)
    /\ IF Head(control_queue).kind = "SetLanguagePair"
       THEN /\ loop' = [pc |-> "lock", msg |-> Head(control_queue)]
            /\ UNCHANGED last_control
       ELSE /\ last_control' = Head(control_queue)
            /\ UNCHANGED loop
    /\ UNCHANGED <<sb_status, devices, control_rx, loop_spawned, translator_lock,
                   spawned, lifecycle, sent, last_callback, last_origin>>
    /\ queue_seq' = Tail(queue_seq)
    /\ last_seq' = Head(queue_seq)
    /\ UNCHANGED <<consumers, chunk_limit>>
    /\ UNCHANGED <<btVars, notSB>>

\* SetLanguagePair: the lock is acquired and update_language_pair stores the pair
LoopLock ==
    /\ loop.pc = "lock"
    /\ translator_lock = Unlocked
    /\ translator_lock' = [holder |-> "control", chunk |-> 0]
    /\ current_pair' = [source |-> loop.msg.src, target |-> loop.msg.tgt]
    /\ update' = [step |-> "pair", user_lang |-> loop.msg.src, other_lang |-> loop.msg.tgt]
    /\ loop' = [loop EXCEPT !.pc = "update"]
    /\ UNCHANGED <<sb_status, devices, control_queue, control_rx, loop_spawned, spawned,
                   lifecycle, sent, last_callback, last_origin, last_control>>
    /\ UNCHANGED <<current_direction, running, result_callback, capturing, pipeline,
                   inflight, tasks, handed, nextChunk, lastPair>>
    /\ UNCHANGED delivered
    /\ UNCHANGED bt_call
    /\ UNCHANGED sbHistory
    /\ UNCHANGED notSB

\* update_language_pair, second block
LoopUpdateUserToOther ==
    /\ loop.pc = "update"
    /\ update.step = "pair"
    /\ pipeline' = [pipeline EXCEPT !["user_to_other"] =
                        SetLanguages(@, update.user_lang, update.other_lang)]
    /\ update' = [update EXCEPT !.step = "user_to_other"]
    /\ UNCHANGED sbVars
    /\ UNCHANGED <<current_pair, current_direction, running, result_callback, capturing,
                   inflight, tasks, handed, nextChunk, lastPair>>
    /\ UNCHANGED delivered
    /\ UNCHANGED bt_call
    /\ UNCHANGED notSB

\* update_language_pair, third block; the guard is dropped and the loop awaits again
LoopUpdateOtherToUser ==
    /\ loop.pc = "update"
    /\ update.step = "user_to_other"
    /\ pipeline' = [pipeline EXCEPT !["other_to_user"] =
                        SetLanguages(@, update.other_lang, update.user_lang)]
    /\ update' = NoUpdate
    /\ lastPair' = [source |-> update.user_lang, target |-> update.other_lang,
                    by |-> "update", updates |-> lastPair.updates + 1]
    /\ translator_lock' = Unlocked
    /\ last_control' = loop.msg
    /\ loop' = [pc |-> "recv", msg |-> NoMessage]
    /\ UNCHANGED <<sb_status, devices, control_queue, control_rx, loop_spawned, spawned,
                   lifecycle, sent, last_callback, last_origin>>
    /\ UNCHANGED <<current_pair, current_direction, running, result_callback, capturing,
                   inflight, tasks, handed, nextChunk>>
    /\ UNCHANGED delivered
    /\ UNCHANGED bt_call
    /\ UNCHANGED sbHistory
    /\ UNCHANGED notSB

SBNext ==
    \/ InitializeDevices
    \/ StartSB
    \/ StopSB
    \/ \E msg \in ControlInputs : SendControl(msg)
    \/ MicCallback
    \/ LoopbackCallback
    \/ \E origin \in {"mic", "loopback"} : SimulateInput(origin)
    \/ \E t \in spawned : TaskLock(t)
    \/ \E t \in spawned : TaskSubmit(t)
    \/ LoopTake
    \/ LoopRecv
    \/ LoopLock
    \/ LoopUpdateUserToOther
    \/ LoopUpdateOtherToUser

(***************************************************************************)
(* C11: audio delivered by the physical-microphone input callback is       *)
(* submitted only through the outbound handler (and so to the              *)
(* user-to-other pipeline), and audio delivered by the loopback input      *)
(* callback only through the inbound handler (the other-to-user pipeline): *)
(* every task a callback spawned carries the handler of its endpoint, and  *)
(* the last chunk a callback's task handed over went that way.             *)
(***************************************************************************)
C11_CallbackRouting ==
    /\ \A t \in spawned :
          t.by = "callback" =>
             /\ t.origin = "mic" => t.op = "outbound"
             /\ t.origin = "loopback" => t.op = "inbound"
    /\ last_origin = [origin |-> "mic", by |-> "callback"] =>
          handed.via = "outbound" /\ handed.pipeline = "user_to_other"
    /\ last_origin = [origin |-> "loopback", by |-> "callback"] =>
          handed.via = "inbound" /\ handed.pipeline = "other_to_user"

\* a chunk the microphone callback delivered has been handed to a pipeline
C11_Witness ==
    /\ last_origin = [origin |-> "mic", by |-> "callback"]
    /\ handed.via = "outbound"
    /\ last_callback.origin = "mic"

(***************************************************************************)
(* TranslationPipeline on its own                                          *)
(*                                                                         *)
(* Every method but the spawned translation takes &mut self and is one     *)
(* step.  An utterance is what is spoken up to the recogniser's final      *)
(* result: frames go to process_frame while it is spoken, the audio that   *)
(* ends it to process_audio.                                               *)
(***************************************************************************)
ModelPaths == {"", "./models/model.bin"}

NoneReceived == [utterance |-> 0, original_text |-> <<>>, translated_text |-> <<>>,
                 asr_confidence |-> 0, mt_confidence |-> 0, is_partial |-> FALSE,
                 is_final |-> FALSE, recognised |-> 0]

\* no spawned translation has called the translator (in_force: the pipeline's tags
\* when the translation was dispatched)
NoneTranslated == [source_language |-> "", target_language |-> "",
                   in_force |-> [source |-> "", target |-> ""]]

Call(op, was_running, returned, recognised, dispatched, invoked) ==
    [op |-> op, was_running |-> was_running, returned |-> returned,
     recognised |-> recognised, dispatched |-> dispatched, invoked |-> invoked]

\* TranslationPipeline::new(asr_model_path, mt_model_path)
TPNew(asr_path, mt_path) ==
    /\ asr_model_path = asr_path
    /\ mt_model_path = mt_path
    /\ asr_initialized = FALSE
    /\ mt_initialized = FALSE
    /\ tp_running = FALSE
    /\ tp_callback = FALSE
    /\ translations = {}
    /\ utterance = 1
    /\ frames = 0
    /\ received = NoneReceived
    /\ partials = {}
    /\ finalised = {}
    /\ phase = "new"
    /\ tp_call = Call("new", FALSE, "", FALSE, FALSE, FALSE)
    /\ tp_source_language = "zh"
    /\ tp_target_language = "en"
    /\ asr_language = "auto"
    /\ translated = NoneTranslated
    /\ final_count = [handled |-> 0, invoked |-> 0]

TPInit == \E a, m \in ModelPaths : TPNew(a, m)

\* set_translation_callback
TPSetTranslationCallback ==
    /\ tp_callback' = TRUE
    /\ tp_call' = Call("set_translation_callback", tp_running, "", FALSE, FALSE, FALSE)
    /\ UNCHANGED <<asr_model_path, mt_model_path, asr_initialized, mt_initialized,
                   tp_running, translations, utterance, frames, received, partials,
                   finalised, phase>>
    /\ UNCHANGED <<tpLang, translated, final_count>>
    /\ UNCHANGED notTP

\* Asr::initialize / Mt::initialize on a module with the given flag and model path:
\* whether it returns Ok
InitializeOk(initialized, model_path) == initialized \/ model_path # ""

\* initialize: the recogniser first, and the translator only if that went well
TPInitialize ==
    /\ asr_initialized' = InitializeOk(asr_initialized, asr_model_path)
    /\ mt_initialized' = IF asr_initialized'
                         THEN InitializeOk(mt_initialized, mt_model_path)
                         ELSE mt_initialized
    /\ tp_call' = Call("initialize", tp_running,
                       IF asr_initialized' /\ mt_initialized' THEN "Ok" ELSE "Err",
                       FALSE, FALSE, FALSE)
    /\ UNCHANGED <<asr_model_path, mt_model_path, tp_running, tp_callback, translations,
                   utterance, frames, received, partials, finalised, phase>>
    /\ UNCHANGED <<tpLang, translated, final_count>>
    /\ UNCHANGED notTP

\* a start that does not ask the translator whether it is initialized
TPStartIgnoresMt ==
    /\ IF tp_running
       THEN /\ tp_call' = Call("start", TRUE, "Ok", FALSE, FALSE, FALSE)
            /\ UNCHANGED <<tp_running, phase>>
       ELSE IF ~asr_initialized
       THEN /\ tp_call' = Call("start", FALSE, "Err", FALSE, FALSE, FALSE)
            /\ phase' = "start_failed"
            /\ UNCHANGED tp_running
       ELSE /\ tp_running' = TRUE
            /\ phase' = "started"
            /\ tp_call' = Call("start", FALSE, "Ok", FALSE, FALSE, FALSE)
    /\ UNCHANGED <<asr_model_path, mt_model_path, asr_initialized, mt_initialized,
                   tp_callback, translations, utterance, frames, received, partials,
                   finalised>>
    /\ UNCHANGED <<tpLang, translated, final_count>>
    /\ UNCHANGED notTP

\* start
TPStart ==
    /\ IF tp_running
       THEN /\ tp_call' = Call("start", TRUE, "Ok", FALSE, FALSE, FALSE)
            /\ UNCHANGED <<tp_running, phase>>
       ELSE IF ~asr_initialized \/ ~mt_initialized
       THEN /\ tp_call' = Call("start", FALSE, "Err", FALSE, FALSE, FALSE)
            /\ phase' = "start_failed"
            /\ UNCHANGED tp_running
       ELSE /\ tp_running' = TRUE
            /\ phase' = "started"
            /\ tp_call' = Call("start", FALSE, "Ok", FALSE, FALSE, FALSE)
    /\ UNCHANGED <<asr_model_path, mt_model_path, asr_initialized, mt_initialized,
                   tp_callback, translations, utterance, frames, received, partials,
                   finalised>>
    /\ UNCHANGED <<tpLang, translated, final_count>>
    /\ UNCHANGED notTP

\* stop
TPStop ==
    /\ IF tp_running
       THEN /\ tp_running' = FALSE
            /\ phase' = "stopped"
       ELSE UNCHANGED <<tp_running, phase>>
    /\ tp_call' = Call("stop", tp_running, "Ok", FALSE, FALSE, FALSE)
    /\ UNCHANGED <<asr_model_path, mt_model_path, asr_initialized, mt_initialized,
                   tp_callback, translations, utterance, frames, received, partials,
                   finalised>>
    /\ UNCHANGED <<tpLang, translated, final_count>>
    /\ UNCHANGED notTP

\* on_asr_result, final branch: the translation spawned for a result
Spawned(result, kind) ==
    [utterance |-> utterance, kind |-> kind, source_text |-> result.text,
     confidence |-> result.confidence,
     source_lang |-> tp_source_language, target_lang |-> tp_target_language,
     callback |-> tp_callback,
     in_force |-> [source |-> tp_source_language, target |-> tp_target_language]]

\* on_asr_result, non-final branch: what the callback receives (recognised: the
\* confidence of the recognition result it was built for)
Partial(result) ==
    [utterance |-> utterance, original_text |-> result.text, translated_text |-> <<>>,
     asr_confidence |-> result.confidence, mt_confidence |-> 0, is_partial |-> TRUE,
     is_final |-> FALSE, recognised |-> result.confidence]

\* on_asr_result: the count after a pipeline has handled the recognition results
\* asr_results
Handled(asr_results) ==
    [final_count EXCEPT
       !.handled = @ + IF tp_callback
                       THEN Cardinality({r \in asr_results : r.is_final})
                       ELSE 0]

\* process_audio(audio_data)
TPProcessAudio ==
    /\ utterance <= MaxUtterances
    /\ IF ~tp_running
       THEN /\ tp_call' = Call("process_audio", FALSE, "false", FALSE, FALSE, FALSE)
            /\ UNCHANGED <<translations, utterance, received, partials>>
       ELSE LET asr_results == Range(AsrProcessAudio(asr_initialized))
                finals == {r \in asr_results : r.is_final}
                others == {r \in asr_results : ~r.is_final}
            IN  /\ translations' = translations \cup {Spawned(r, "final") : r \in finals}
                /\ IF others # {} /\ tp_callback
                   THEN /\ received' = Partial(CHOOSE r \in others : TRUE)
                        /\ partials' = partials \cup {utterance}
                   ELSE UNCHANGED <<received, partials>>
                /\ utterance' = IF finals # {} THEN utterance + 1 ELSE utterance
                /\ tp_call' = Call("process_audio", TRUE, "true", TRUE, finals # {},
                                   others # {} /\ tp_callback)
    /\ UNCHANGED <<asr_model_path, mt_model_path, asr_initialized, mt_initialized,
                   tp_running, tp_callback, frames, finalised, phase>>
    /\ UNCHANGED <<tpLang, translated>>
    /\ final_count' = IF tp_running
                      THEN Handled(Range(AsrProcessAudio(asr_initialized)))
                      ELSE final_count
    /\ UNCHANGED notTP

\* a process_frame that hands its partial result to a spawned task
TPProcessFrameDeferred ==
    /\ frames < MaxFrames
    /\ utterance <= MaxUtterances
    /\ IF ~tp_running
       THEN /\ tp_call' = Call("process_frame", FALSE, "false", FALSE, FALSE, FALSE)
            /\ UNCHANGED <<translations, frames>>
       ELSE LET result == AsrProcessFrame(asr_initialized) IN
            /\ translations' = translations \cup
                  {Spawned(result, IF result.is_final THEN "final" ELSE "partial")}
            /\ frames' = frames + 1
            /\ tp_call' = Call("process_frame", TRUE, "true", TRUE, TRUE, FALSE)
    /\ UNCHANGED <<received, partials>>
    /\ UNCHANGED <<asr_model_path, mt_model_path, asr_initialized, mt_initialized,
                   tp_running, tp_callback, utterance, finalised, phase>>
    /\ UNCHANGED <<tpLang, translated>>
    /\ final_count' = IF tp_running
                      THEN Handled({AsrProcessFrame(asr_initialized)})
                      ELSE final_count
    /\ UNCHANGED notTP

\* a process_frame that does not look at the running flag
TPProcessFrameUngated ==
    /\ frames < MaxFrames
    /\ utterance <= MaxUtterances
    /\ LET result == AsrProcessFrame(asr_initialized) IN
         /\ translations' = IF result.is_final
                            THEN translations \cup {Spawned(result, "final")}
                            ELSE translations
         /\ IF ~result.is_final /\ tp_callback
            THEN /\ received' = Partial(result)
                 /\ partials' = partials \cup {utterance}
            ELSE UNCHANGED <<received, partials>>
         /\ frames' = frames + 1
         /\ tp_call' = Call("process_frame", tp_running, "true", TRUE, result.is_final,
                            ~result.is_final /\ tp_callback)
    /\ UNCHANGED <<asr_model_path, mt_model_path, asr_initialized, mt_initialized,
                   tp_running, tp_callback, utterance, finalised, phase>>
    /\ UNCHANGED <<tpLang, translated>>
    /\ final_count' = Handled({AsrProcessFrame(asr_initialized)})
    /\ UNCHANGED notTP

\* process_frame(audio_frame)
TPProcessFrame ==
    /\ frames < MaxFrames
    /\ utterance <= MaxUtterances
    /\ IF ~tp_running
       THEN /\ tp_call' = Call("process_frame", FALSE, "false", FALSE, FALSE, FALSE)
            /\ UNCHANGED <<translations, frames, received, partials>>
       ELSE LET result == AsrProcessFrame(asr_initialized) IN
            /\ translations' = IF result.is_final
                               THEN translations \cup {Spawned(result, "final")}
                               ELSE translations
            /\ IF ~result.is_final /\ tp_callback
               THEN /\ received' = Partial(result)
                    /\ partials' = partials \cup {utterance}
               ELSE UNCHANGED <<received, partials>>
            /\ frames' = frames + 1
            /\ tp_call' = Call("process_frame", TRUE, "true", TRUE, result.is_final,
                               ~result.is_final /\ tp_callback)
    /\ UNCHANGED <<asr_model_path, mt_model_path, asr_initialized, mt_initialized,
                   tp_running, tp_callback, utterance, finalised, phase>>
    /\ UNCHANGED <<tpLang, translated>>
    /\ final_count' = IF tp_running
                      THEN Handled({AsrProcessFrame(asr_initialized)})
                      ELSE final_count
    /\ UNCHANGED notTP

\* the languages the setters are called with
SourceTags == {"zh", "fr"}
TargetTags == {"en", "fr"}

\* set_source_language(lang): the tag, and the recogniser's language
TPSetSourceLanguage(lang) ==
    /\ tp_source_language' = lang
    /\ asr_language' = lang
    /\ UNCHANGED <<asr_model_path, mt_model_path, asr_initialized, mt_initialized,
                   tp_running, tp_callback, translations, utterance, frames, received,
                   partials, finalised, phase, tp_call>>
    /\ UNCHANGED <<tp_target_language, translated, final_count>>
    /\ UNCHANGED notTP

\* set_target_language(lang)
TPSetTargetLanguage(lang) ==
    /\ tp_target_language' = lang
    /\ UNCHANGED <<asr_model_path, mt_model_path, asr_initialized, mt_initialized,
                   tp_running, tp_callback, translations, utterance, frames, received,
                   partials, finalised, phase, tp_call>>
    /\ UNCHANGED <<tp_source_language, asr_language, translated, final_count>>
    /\ UNCHANGED notTP

\* the count after spawned translation t has run to its end
Invoked(t) ==
    [final_count EXCEPT
       !.invoked = @ + IF t.callback /\ t.kind = "final" THEN 1 ELSE 0]

\* the confidence of a partial recognition result
PartialAsrConfidence == AsrProcessFrame(TRUE).confidence

\* the recognition confidence the spawned translation writes into its result: the
\* literal 0.9, in hundredths
TaskAsrConfidence == 90

\* the TranslationResult spawned translation t builds from the translator's result
\* (recognised: the confidence of the recognition result t was spawned for, which
\* the task itself does not hold)
TaskResult(t, mt_result) ==
    [utterance |-> t.utterance,
     original_text |-> mt_result.source_text,
     translated_text |-> mt_result.translated_text,
     asr_confidence |-> TaskAsrConfidence,
     mt_confidence |-> mt_result.confidence,
     is_partial |-> t.kind = "partial",
     is_final |-> t.kind = "final",
     recognised |-> t.confidence]

\* a spawned translation that reads the pipeline's tags when it runs
TPTaskCurrentTags(t) ==
    /\ t \in translations
    /\ translations' = translations \ {t}
    /\ LET mt_result == MtTranslate(t.source_text, tp_source_language, tp_target_language) IN
         IF t.callback
         THEN /\ received' = TaskResult(t, mt_result)
              /\ partials' = IF t.kind = "partial" THEN partials \cup {t.utterance}
                             ELSE partials
              /\ finalised' = IF t.kind = "final" THEN finalised \cup {t.utterance}
                              ELSE finalised
         ELSE UNCHANGED <<received, partials, finalised>>
    /\ UNCHANGED <<asr_model_path, mt_model_path, asr_initialized, mt_initialized,
                   tp_running, tp_callback, utterance, frames, phase, tp_call>>
    /\ LET mt_result == MtTranslate(t.source_text, tp_source_language, tp_target_language) IN
         translated' = [source_language |-> mt_result.source_language,
                       target_language |-> mt_result.target_language,
                       in_force |-> t.in_force]
    /\ final_count' = Invoked(t)
    /\ UNCHANGED tpLang
    /\ UNCHANGED notTP

\* a spawned translation that waits for those of the utterances before its own
TPTaskInOrder(t) ==
    /\ t \in translations
    /\ \A u \in translations : u.utterance >= t.utterance
    /\ translations' = translations \ {t}
    /\ LET mt_result == MtTranslate(t.source_text, t.source_lang, t.target_lang) IN
         IF t.callback
         THEN /\ received' = TaskResult(t, mt_result)
              /\ partials' = IF t.kind = "partial" THEN partials \cup {t.utterance}
                             ELSE partials
              /\ finalised' = IF t.kind = "final" THEN finalised \cup {t.utterance}
                              ELSE finalised
         ELSE UNCHANGED <<received, partials, finalised>>
    /\ UNCHANGED <<asr_model_path, mt_model_path, asr_initialized, mt_initialized,
                   tp_running, tp_callback, utterance, frames, phase, tp_call>>
    /\ LET mt_result == MtTranslate(t.source_text, t.source_lang, t.target_lang) IN
         translated' = [source_language |-> mt_result.source_language,
                       target_language |-> mt_result.target_language,
                       in_force |-> t.in_force]
    /\ final_count' = Invoked(t)
    /\ UNCHANGED tpLang
    /\ UNCHANGED notTP

\* a spawned translation that is still there after it ran to its end
TPTaskStays(t) ==
    /\ t \in translations
    /\ translations' = translations
    /\ LET mt_result == MtTranslate(t.source_text, t.source_lang, t.target_lang) IN
         IF t.callback
         THEN /\ received' = TaskResult(t, mt_result)
              /\ partials' = IF t.kind = "partial" THEN partials \cup {t.utterance}
                             ELSE partials
              /\ finalised' = IF t.kind = "final" THEN finalised \cup {t.utterance}
                              ELSE finalised
         ELSE UNCHANGED <<received, partials, finalised>>
    /\ UNCHANGED <<asr_model_path, mt_model_path, asr_initialized, mt_initialized,
                   tp_running, tp_callback, utterance, frames, phase, tp_call>>
    /\ LET mt_result == MtTranslate(t.source_text, t.source_lang, t.target_lang) IN
         translated' = [source_language |-> mt_result.source_language,
                       target_language |-> mt_result.target_language,
                       in_force |-> t.in_force]
    /\ final_count' = Invoked(t)
    /\ UNCHANGED tpLang
    /\ UNCHANGED notTP

\* a spawned translation runs to its end: Mt::translate, then the callback captured
\* when it was spawned
TPTask(t) ==
    /\ t \in translations
    /\ translations' = translations \ {t}
    /\ LET mt_result == MtTranslate(t.source_text, t.source_lang, t.target_lang) IN
         IF t.callback
         THEN /\ received' = TaskResult(t, mt_result)
              /\ partials' = IF t.kind = "partial" THEN partials \cup {t.utterance}
                             ELSE partials
              /\ finalised' = IF t.kind = "final" THEN finalised \cup {t.utterance}
                              ELSE finalised
         ELSE UNCHANGED <<received, partials, finalised>>
    /\ UNCHANGED <<asr_model_path, mt_model_path, asr_initialized, mt_initialized,
                   tp_running, tp_callback, utterance, frames, phase, tp_call>>
    /\ LET mt_result == MtTranslate(t.source_text, t.source_lang, t.target_lang) IN
         translated' = [source_language |-> mt_result.source_language,
                       target_language |-> mt_result.target_language,
                       in_force |-> t.in_force]
    /\ final_count' = Invoked(t)
    /\ UNCHANGED tpLang
    /\ UNCHANGED notTP

TPNext ==
    \/ TPSetTranslationCallback
    \/ TPInitialize
    \/ TPStart
    \/ TPStop
    \/ TPProcessAudio
    \/ TPProcessFrame
    \/ \E lang \in SourceTags : TPSetSourceLanguage(lang)
    \/ \E lang \in TargetTags : TPSetTargetLanguage(lang)
    \/ \E t \in translations : TPTask(t)

(***************************************************************************)
(* The locks of a switchboard's translator                                 *)
(*                                                                         *)
(* The tasks the switchboard spawns, statement by statement where a lock   *)
(* is acquired or released: an audio task per chunk, which calls           *)
(* handle_outbound_audio or handle_inbound_audio under the translator's    *)
(* AsyncMutex; the control loop, which calls update_language_pair under    *)
(* it; and the translation a running pipeline spawns for a chunk.  A task  *)
(* is a sequence of statements; a guard dropped at the end of a statement  *)
(* or a block is a release.                                                *)
(***************************************************************************)
AudioTasks == {[kind |-> "audio", chunk |-> c] : c \in 1..MaxTasks}
TranslationTasks == {[kind |-> "translate", chunk |-> c] : c \in 1..MaxTasks}
ControlTask == [kind |-> "control", chunk |-> 0]
LockTasks == AudioTasks \cup TranslationTasks \cup {ControlTask}
NoTask == [kind |-> "", chunk |-> 0]

\* AudioSwitchboard.translator; BidirectionalTranslator.current_pair,
\* current_direction, the two pipelines; TranslationPipeline.asr, mt,
\* source_language, target_language
Lock(name, p) == [name |-> name, pipeline |-> p]
TranslatorLock == Lock("translator", "")
Locks ==
    {TranslatorLock, Lock("current_pair", ""), Lock("current_direction", "")}
       \cup {Lock(n, p) : n \in {"pipeline", "asr", "mt", "source_language",
                                  "target_language"},
                          p \in Pipelines}

Acquire(l) == [do |-> "acquire", lock |-> l]
Release(l) == [do |-> "release", lock |-> l]
SpawnTranslation == [do |-> "spawn", lock |-> TranslatorLock]

\* lock().unwrap() whose guard is dropped at the end of the statement or block
Briefly(l) == <<Acquire(l), Release(l)>>

\* TranslationPipeline::process_audio and the on_asr_result it calls
ProcessAudioLocks(p, is_running) ==
    IF ~is_running THEN <<>>
    ELSE Briefly(Lock("asr", p))
            \o Briefly(Lock("source_language", p))
            \o Briefly(Lock("target_language", p))
            \o <<SpawnTranslation>>

\* the task a device callback spawns: translator.lock().await, then
\* handle_outbound_audio / handle_inbound_audio
AudioProgram(op, is_running) ==
    LET p == IF op = "outbound" THEN "user_to_other" ELSE "other_to_user" IN
    <<Acquire(TranslatorLock)>>
       \o Briefly(Lock("current_direction", ""))
       \o <<Acquire(Lock("pipeline", p))>>
       \o ProcessAudioLocks(p, is_running)
       \o <<Release(Lock("pipeline", p)), Release(TranslatorLock)>>

\* update_language_pair, one pipeline: set_source_language, set_target_language
SetLanguagesLocks(p) ==
    <<Acquire(Lock("pipeline", p))>>
       \o Briefly(Lock("source_language", p))
       \o Briefly(Lock("asr", p))
       \o Briefly(Lock("target_language", p))
       \o <<Release(Lock("pipeline", p))>>

\* an update that locks the pipelines before the translator
ControlProgramPipelinesFirst ==
    <<Acquire(Lock("pipeline", "user_to_other")), Acquire(TranslatorLock)>>
       \o Briefly(Lock("current_pair", ""))
       \o <<Release(Lock("pipeline", "user_to_other"))>>
       \o SetLanguagesLocks("other_to_user")
       \o <<Release(TranslatorLock)>>

\* the control loop on SetLanguagePair: translator.lock().await, then
\* update_language_pair
ControlProgram ==
    <<Acquire(TranslatorLock)>>
       \o Briefly(Lock("current_pair", ""))
       \o SetLanguagesLocks("user_to_other")
       \o SetLanguagesLocks("other_to_user")
       \o <<Release(TranslatorLock)>>

\* the translation on_asr_result spawns: mt.lock(), translate, the callback
TranslationProgram(op) ==
    LET p == IF op = "outbound" THEN "user_to_other" ELSE "other_to_user" IN
    Briefly(Lock("mt", p))

\* the statements of task t
Program(t) ==
    IF t.kind = "audio" THEN AudioProgram(lk_op[t.chunk], lk_running)
    ELSE IF t.kind = "translate" THEN TranslationProgram(lk_op[t.chunk])
    ELSE ControlProgram

\* task t is at a statement
Active(t) == lk_pc[t] \in 1..Len(Program(t))
Statement(t) == Program(t)[lk_pc[t]]

\* AudioSwitchboard::new, and the translator started or not
LKNew(is_running) ==
    /\ lk_running = is_running
    /\ lk_held = [l \in Locks |-> NoTask]
    /\ lk_pc = [t \in LockTasks |-> 0]
    /\ lk_op = [c \in 1..MaxTasks |-> ""]


\* a device callback spawns the task of chunk c
LKAudioCallback(c, op) ==
    /\ lk_pc[[kind |-> "audio", chunk |-> c]] = 0
    /\ \A d \in 1..(c - 1) : lk_op[d] # ""
    /\ lk_op[c] = ""
    /\ lk_op' = [lk_op EXCEPT ![c] = op]
    /\ lk_pc' = [lk_pc EXCEPT ![[kind |-> "audio", chunk |-> c]] = 1]
    /\ UNCHANGED <<lk_running, lk_held>>
    /\ UNCHANGED notLK

\* the control loop receives a SetLanguagePair, or has handled one and awaits the next
LKControlRecv ==
    /\ ~Active(ControlTask)
    /\ lk_pc' = [lk_pc EXCEPT ![ControlTask] = 1]
    /\ UNCHANGED <<lk_running, lk_held, lk_op>>
    /\ UNCHANGED notLK

\* task t acquires the lock it is at, which is free
LKAcquire(t) ==
    /\ Active(t)
    /\ Statement(t).do = "acquire"
    /\ lk_held[Statement(t).lock] = NoTask
    /\ lk_held' = [lk_held EXCEPT ![Statement(t).lock] = t]
    /\ lk_pc' = [lk_pc EXCEPT ![t] = @ + 1]
    /\ UNCHANGED <<lk_running, lk_op>>
    /\ UNCHANGED notLK

\* task t drops the guard of the lock it is at
LKRelease(t) ==
    /\ Active(t)
    /\ Statement(t).do = "release"
    /\ lk_held' = [lk_held EXCEPT ![Statement(t).lock] = NoTask]
    /\ lk_pc' = [lk_pc EXCEPT ![t] = @ + 1]
    /\ UNCHANGED <<lk_running, lk_op>>
    /\ UNCHANGED notLK

\* audio task t spawns the translation of its chunk
LKSpawn(t) ==
    /\ Active(t)
    /\ Statement(t).do = "spawn"
    /\ lk_pc' = [lk_pc EXCEPT ![t] = @ + 1,
                              ![[kind |-> "translate", chunk |-> t.chunk]] = 1]
    /\ UNCHANGED <<lk_running, lk_held, lk_op>>
    /\ UNCHANGED notLK

LKNext ==
    \/ \E c \in 1..MaxTasks, op \in {"outbound", "inbound"} : LKAudioCallback(c, op)
    \/ LKControlRecv
    \/ \E t \in LockTasks : LKAcquire(t)
    \/ \E t \in LockTasks : LKRelease(t)
    \/ \E t \in AudioTasks : LKSpawn(t)

\* the Vad a TranslationPipeline constructs: Vad::new(SAMPLE_RATE, 30)
VadParked == VadNew(16000, 30)

RBParked == RBNew /\ capacity = 0

\* the translator of the repository's tests: BidirectionalTranslator::new("zh", "en")
BTParked == BTNew("zh", "en")

\* the switchboard fields as AudioSwitchboard::new leaves them
SBParked == SBFields

\* the pipeline of the repository's test
TPParked == TPNew("./models/model.bin", "./models/model.bin")

InitRB == RBNew /\ VadParked /\ BTParked /\ SBParked /\ TPParked /\ LKNew(FALSE)

SpecRB == InitRB /\ [][RBNext]_vars

InitVad == VadInit /\ RBParked /\ BTParked /\ SBParked /\ TPParked /\ LKNew(FALSE)

SpecVad == InitVad /\ [][VadNext]_vars

InitBT == BTInit /\ RBParked /\ VadParked /\ SBParked /\ TPParked /\ LKNew(FALSE)

SpecBT == InitBT /\ [][BTNext]_vars

InitSB == SBInit /\ RBParked /\ VadParked /\ TPParked /\ LKNew(FALSE)

SpecSB == InitSB /\ [][SBNext]_vars

InitTP == TPInit /\ RBParked /\ VadParked /\ BTParked /\ SBParked /\ LKNew(FALSE)

InitLK == (\E is_running \in BOOLEAN : LKNew(is_running)) /\ RBParked /\ VadParked /\ BTParked /\ SBParked /\ TPParked

SpecLK == InitLK /\ [][LKNext]_vars

SpecTP == InitTP /\ [][TPNext]_vars


\* SpecBT with the scheduling the code relies on: a handler call that has begun
\* runs on (its thread gets the pipeline's mutex), and the tokio runtime runs every
\* spawned translation
SpecBTFair ==
    /\ InitBT
    /\ [][BTNext]_vars
    /\ WF_vars(\E req \in inflight : SubmitExplicit(req))
    /\ \A c \in 1..MaxChunks : WF_vars(\E task \in tasks : task.chunk = c /\ TranslationTask(task))

(***************************************************************************)
(* C12: on a translator that has a result callback and is started, every   *)
(* chunk submitted via handle_outbound_audio leads to the callback         *)
(* receiving a result tagged UserToOther with non-empty translated text,   *)
(* and every chunk submitted via handle_inbound_audio to a result tagged   *)
(* OtherToUser.                                                            *)
(***************************************************************************)
C12_EventuallyDelivered ==
    \A c \in 1..MaxChunks :
       /\ (running /\ result_callback /\ [op |-> "outbound", chunk |-> c] \in inflight)
             ~> (/\ delivered.chunk = c
                 /\ delivered.direction = "UserToOther"
                 /\ delivered.translated_text # <<>>)
       /\ (running /\ result_callback /\ [op |-> "inbound", chunk |-> c] \in inflight)
             ~> (delivered.chunk = c /\ delivered.direction = "OtherToUser")

\* the only chunk so far went in through handle_outbound_audio and its result has
\* reached the callback, after the indicator moved on
C12_Witness ==
    /\ nextChunk = 2
    /\ handed.via = "outbound"
    /\ delivered.chunk = 1
    /\ delivered.direction = "UserToOther"
    /\ delivered.translated_text # <<>>
    /\ current_direction = "OtherToUser"

\* SpecSB with the scheduling the code relies on: the tokio runtime runs the control
\* loop and every spawned task, a held guard is dropped when its holder runs on, and
\* the AsyncMutex serves its waiters in turn
SpecSBFair ==
    /\ InitSB
    /\ [][SBNext]_vars
    /\ WF_vars(LoopTake)
    /\ WF_vars(LoopRecv)
    /\ SF_vars(LoopLock)
    /\ WF_vars(LoopUpdateUserToOther)
    /\ WF_vars(LoopUpdateOtherToUser)
    /\ WF_vars(\E t \in spawned : TaskSubmit(t))

\* start() has been called: its control-loop task is spawned or already looping
Started == loop_spawned > 0 \/ loop.pc # "none"

(***************************************************************************)
(* C13: once start() has been called, a SetLanguagePair(a, b) sent with    *)
(* send_control is eventually consumed by the control loop, and the        *)
(* translator's current language pair becomes {source: a, target: b}.      *)
(***************************************************************************)
C13_PairEventuallySet ==
    \A m \in {x \in Messages : x.kind = "SetLanguagePair"} :
       (Started /\ m \in Range(control_queue))
          ~> (/\ last_control = m
              /\ get_current_language_pair = [source |-> m.src, target |-> m.tgt])

\* the loop has consumed a SetLanguagePair, the translator holds its pair, and the
\* switchboard has been stopped since
C13_Witness ==
    /\ last_control.kind = "SetLanguagePair"
    /\ get_current_language_pair = [source |-> last_control.src, target |-> last_control.tgt]
    /\ loop.pc = "recv"
    /\ lifecycle.last = "stop"

(***************************************************************************)
(* C14: a stop() that follows a start() leaves every one of the four       *)
(* endpoints with the one stream start() opened on it closed exactly once, *)
(* and the status Idle, whether or not a control message was ever sent.    *)
(***************************************************************************)
C14_StopClosesOnce ==
    (lifecycle.last = "stop" /\ lifecycle.before = "start") =>
        /\ get_status = "Idle"
        /\ \A e \in Endpoints :
              /\ devices[e].present
              /\ devices[e].in_opens + devices[e].out_opens = 1
              /\ devices[e].in_opens = 1 => devices[e].in_closes = 1
              /\ devices[e].out_opens = 1 => devices[e].out_closes = 1

\* start() then stop(), and no control message was ever sent
C14_Witness ==
    /\ lifecycle.last = "stop"
    /\ lifecycle.before = "start"
    /\ sent = 0
    /\ devices["physical_headphones"].out_closes = 1

(***************************************************************************)
(* C15: a per-chunk input callback the switchboard installed never waits:  *)
(* whenever the endpoint holds the callback it can run to its end, where   *)
(* it has only spawned a task, whoever holds the translator's lock.        *)
(***************************************************************************)
C15_CallbackNeverWaits ==
    /\ (devices["physical_mic"].input_callback /\ nextChunk <= chunk_limit)
          => ENABLED MicCallback
    /\ (devices["virtual_cable_output"].input_callback /\ nextChunk <= chunk_limit)
          => ENABLED LoopbackCallback

\* the loopback callback has returned while the control loop held the translator's
\* lock, and its task is still waiting for it
C15_Witness ==
    /\ last_callback = [origin |-> "loopback", holder |-> "control"]
    /\ translator_lock.holder = "control"
    /\ \E t \in spawned : t.origin = "loopback" /\ t.by = "callback"

(***************************************************************************)
(* C16: the callback never receives a partial result of an utterance whose *)
(* final result it has received, and it receives a final result only for   *)
(* an utterance the recogniser has reported final.                         *)
(***************************************************************************)
C16_PartialsBeforeFinal ==
    /\ received.is_partial => received.utterance \notin finalised
    /\ received.is_final => received.utterance < utterance
    /\ finalised \subseteq 1..(utterance - 1)

\* the callback received partial results of the first utterance and then its final
\* result, while the second utterance was being spoken
C16_Witness ==
    /\ received.is_final
    /\ received.utterance = 1
    /\ 1 \in partials
    /\ 2 \in partials

(***************************************************************************)
(* C17: process_audio and process_frame on a pipeline that is not Running  *)
(* (before start, after a failed start, after stop) return false, do not   *)
(* call the recogniser, dispatch no translation and do not invoke the      *)
(* callback.                                                               *)
(***************************************************************************)
C17_NoOpUnlessRunning ==
    (tp_call.op \in {"process_audio", "process_frame"} /\ ~tp_call.was_running) =>
        /\ tp_call.returned = "false"
        /\ ~tp_call.recognised
        /\ ~tp_call.dispatched
        /\ ~tp_call.invoked

\* process_frame after a failed start, on a pipeline whose recogniser is initialized
\* and which has a callback
C17_Witness ==
    /\ tp_call.op = "process_frame"
    /\ tp_call.returned = "false"
    /\ phase = "start_failed"
    /\ asr_initialized
    /\ tp_callback

(***************************************************************************)
(* C18: start() returns an error and leaves the pipeline non-Running       *)
(* whenever the recogniser or the translator is not initialized, and the   *)
(* pipeline is Running only when both are.                                 *)
(***************************************************************************)
C18_StartNeedsBoth ==
    /\ tp_running => asr_initialized /\ mt_initialized
    /\ tp_call.op = "start" =>
          /\ (~asr_initialized \/ ~mt_initialized) =>
                tp_call.returned = "Err" /\ ~tp_running
          /\ (asr_initialized /\ mt_initialized) =>
                tp_call.returned = "Ok" /\ tp_running

\* start() failed on a pipeline whose recogniser is initialized and whose translator
\* is not
C18_Witness ==
    /\ tp_call.op = "start"
    /\ tp_call.returned = "Err"
    /\ asr_initialized
    /\ ~mt_initialized
    /\ ~tp_running

C22_TagsAtDispatch ==
    /\ translated # NoneTranslated =>
          /\ translated.source_language = translated.in_force.source
          /\ translated.target_language = translated.in_force.target
    /\ \A t \in translations :
          t.source_lang = t.in_force.source /\ t.target_lang = t.in_force.target

\* a translation has run with tags that both differ from the pipeline's present ones,
\* and a translation dispatched after the change is waiting with the present ones
C22_Witness ==
    /\ translated # NoneTranslated
    /\ translated.source_language # tp_source_language
    /\ translated.target_language # tp_target_language
    /\ \E t \in translations :
          t.source_lang = tp_source_language /\ t.target_lang = tp_target_language

(***************************************************************************)
(* C23: start on a running translator and stop on a stopped one return Ok  *)
(* and change nothing; stop on a running translator stops the capture      *)
(* while both pipelines still run, then the pipelines, and returns with    *)
(* running false, the capture stopped and neither pipeline running.        *)
(***************************************************************************)
C23_Fields == <<current_pair, current_direction, running, result_callback, capturing,
                pipeline, inflight, update, tasks, delivered>>

C23_IdempotentStartStop ==
    /\ [][(BTStart /\ running) => (bt_call'.returned = "Ok" /\ UNCHANGED C23_Fields)]_vars
    /\ [][(BTStop /\ ~running) => (bt_call'.returned = "Ok" /\ UNCHANGED C23_Fields)]_vars
    /\ [][(BTStop /\ running) =>
            (~capturing' /\ running' /\ \A p \in Pipelines : pipeline'[p].running)]_vars
    /\ [][BTStopUserToOther => (~capturing /\ pipeline["other_to_user"].running)]_vars
    /\ [][BTStopOtherToUser =>
            (/\ bt_call'.returned = "Ok"
             /\ ~running' /\ ~capturing'
             /\ \A p \in Pipelines : ~pipeline'[p].running)]_vars

\* a translator that ran and delivered a result was stopped, and stop was called again
C23_Witness ==
    /\ bt_call = [op |-> "stop", was_running |-> FALSE, returned |-> "Ok"]
    /\ delivered # NoneDelivered
    /\ ~running /\ ~capturing
    /\ \A p \in Pipelines : ~pipeline[p].running

\* start was called on a running translator
C23_WitnessStart ==
    bt_call = [op |-> "start", was_running |-> TRUE, returned |-> "Ok"] /\ running

(***************************************************************************)
(* The control plane of the AudioSwitchboard on its own: the lifecycle     *)
(* calls, send_control with every kind of message, and the control loop.   *)
(***************************************************************************)
SBControlNext ==
    \/ InitializeDevices
    \/ StartSB
    \/ StopSB
    \/ \E msg \in AllControlInputs : SendControl(msg)
    \/ LoopTake
    \/ LoopRecv
    \/ LoopLock
    \/ LoopUpdateUserToOther
    \/ LoopUpdateOtherToUser

SpecSBControl == InitSB /\ [][SBControlNext]_vars

\* the control loop is a spawned task the runtime keeps polling, and no audio task
\* holds the translator here
SpecSBControlFair ==
    /\ InitSB
    /\ [][SBControlNext]_vars
    /\ WF_vars(LoopTake)
    /\ WF_vars(LoopRecv)
    /\ WF_vars(LoopLock)
    /\ WF_vars(LoopUpdateUserToOther)
    /\ WF_vars(LoopUpdateOtherToUser)

(***************************************************************************)
(* C24: when the control loop consumes a Start, Stop, ToggleMute or        *)
(* StatusRequest message, the message leaves the queue and the             *)
(* translator's language pair, both pipelines (tags and running flags),    *)
(* the translator's running flag, the capture, the endpoints and the       *)
(* switchboard status are unchanged.                                       *)
(***************************************************************************)
C24_OnlySetLanguagePairActs ==
    [][(LoopRecv /\ Head(control_queue).kind # "SetLanguagePair") =>
          (/\ control_queue' = Tail(control_queue)
           /\ last_control' = Head(control_queue)
           /\ UNCHANGED <<current_pair, pipeline, running, capturing, devices, sb_status>>
           /\ UNCHANGED <<loop, translator_lock, update>>)]_vars

\* a Stop message was consumed after start(): the queue is empty, the endpoints are
\* still open and the loop awaits the next message
C24_Witness ==
    /\ last_control.kind = "Stop"
    /\ control_queue = <<>>
    /\ sent > 0
    /\ lifecycle.last = "start"
    /\ devices = [e \in Endpoints |-> Opened(e)]
    /\ loop.pc = "recv"

(***************************************************************************)
(* C25: the control messages are consumed by one control loop, in the      *)
(* order they were sent and each exactly once: however often start() is    *)
(* called only one loop task ever gets the receiver, the message recv()    *)
(* returns is always the next one sent after the last it returned, the     *)
(* pair changes only when that loop applies the message it consumed, and   *)
(* once SetLanguagePair(a, b) and then SetLanguagePair(c, d) are sent to a *)
(* started switchboard the pair becomes {c, d} with that message the last  *)
(* one handled.                                                            *)
(***************************************************************************)
C25_OneLoopInOrder ==
    /\ [](consumers <= 1)
    /\ [][LoopRecv => (last_seq' = last_seq + 1
                       /\ Len(control_queue') = Len(control_queue) - 1)]_vars
    /\ [][current_pair' # current_pair =>
            (LoopLock /\ current_pair' = [source |-> loop.msg.src, target |-> loop.msg.tgt])]_vars
    /\ \A p, q \in LanguagePairs :
          (/\ Started
           /\ p # q
           /\ Len(control_queue) >= 2
           /\ control_queue[Len(control_queue) - 1] =
                 [kind |-> "SetLanguagePair", src |-> p[1], tgt |-> p[2]]
           /\ control_queue[Len(control_queue)] =
                 [kind |-> "SetLanguagePair", src |-> q[1], tgt |-> q[2]])
             ~> (/\ current_pair = [source |-> q[1], target |-> q[2]]
                 /\ last_control = [kind |-> "SetLanguagePair", src |-> q[1], tgt |-> q[2]])

\* start() was called twice, two different pairs were sent and consumed in turn, and
\* the pair is the second one
C25_Witness ==
    /\ lifecycle.last = "start" /\ lifecycle.before = "start"
    /\ loop_spawned = 0
    /\ consumers = 1
    /\ sent = 2 /\ last_seq = 2
    /\ control_queue = <<>>
    /\ last_control.kind = "SetLanguagePair"
    /\ current_pair = [source |-> last_control.src, target |-> last_control.tgt]
    /\ lastPair.updates = 2
    /\ loop.pc = "recv"

(***************************************************************************)
(* The audio plane of the AudioSwitchboard on its own: the lifecycle calls,*)
(* the input callbacks, the simulate_* callers and the tasks that take the *)
(* translator; no control message is sent.                                 *)
(***************************************************************************)
SBAudioInit == BTNew("zh", "en") /\ SBFieldsFor(MaxLegs)

InitSBAudio == SBAudioInit /\ RBParked /\ VadParked /\ TPParked /\ LKNew(FALSE)

SBAudioNext ==
    \/ InitializeDevices
    \/ StartSB
    \/ StopSB
    \/ MicCallback
    \/ LoopbackCallback
    \/ \E origin \in {"mic", "loopback"} : SimulateInput(origin)
    \/ \E t \in spawned : TaskLock(t)
    \/ \E t \in spawned : TaskSubmit(t)

SpecSBAudio == InitSBAudio /\ [][SBAudioNext]_vars

(***************************************************************************)
(* C26: no task that is to process an inbound chunk waits for a lock held  *)
(* by a task processing an outbound chunk, nor the other way round.        *)
(***************************************************************************)
C26_LegsNeverContend ==
    \A t \in spawned : \A h \in inflight :
        (translator_lock = [holder |-> "task", chunk |-> h.chunk] /\ t.chunk # h.chunk)
           => t.op = h.op

\* a spawned task is polled until it ends, and the translator's AsyncMutex hands the
\* lock to its waiters in turn
SpecSBAudioFair ==
    /\ InitSBAudio
    /\ [][SBAudioNext]_vars
    /\ \A c \in 1..MaxLegs : SF_vars(\E t \in spawned : t.chunk = c /\ TaskLock(t))
    /\ WF_vars(\E t \in spawned : TaskSubmit(t))

(***************************************************************************)
(* C27: a chunk the physical-microphone callback delivered after start()   *)
(* is eventually processed by the user-to-other pipeline: the recogniser   *)
(* runs on it and a translation of it is dispatched; a chunk the loopback  *)
(* callback delivered is eventually processed likewise by the              *)
(* other-to-user pipeline.                                                 *)
(***************************************************************************)
C27_ChunkEventuallyProcessed ==
    \A c \in 1..MaxLegs :
       /\ (\E t \in spawned : t.chunk = c /\ t.origin = "mic" /\ t.by = "callback")
             ~> (/\ handed.pipeline = "user_to_other" /\ handed.ran
                 /\ \E task \in tasks : task.chunk = c /\ task.pipeline = "user_to_other")
       /\ (\E t \in spawned : t.chunk = c /\ t.origin = "loopback" /\ t.by = "callback")
             ~> (/\ handed.pipeline = "other_to_user" /\ handed.ran
                 /\ \E task \in tasks : task.chunk = c /\ task.pipeline = "other_to_user")

\* what the switchboard does instead: no chunk it hands to a pipeline is recognised
C27_NeverRecognised == handed.via \in {"outbound", "inbound"} => (~handed.ran /\ tasks = {})

\* a microphone chunk went through its task and was handed to the user-to-other pipeline
C27_Handed ==
    /\ last_origin = [origin |-> "mic", by |-> "callback"]
    /\ handed.pipeline = "user_to_other"
    /\ spawned = {}

(***************************************************************************)
(* C28: a chunk submitted through simulate_user_speaking or                *)
(* simulate_other_speaking goes to the pipeline the shared direction       *)
(* indicator names when the capture's data callback runs, not to the one   *)
(* its caller meant; with a concurrent handle_inbound_audio a chunk        *)
(* submitted as user speech is processed by the other-to-user pipeline     *)
(* (the state C28_Witness).                                                *)
(***************************************************************************)
C28_RoutedByIndicator ==
    handed.via \in {"sim_user", "sim_other"} =>
        handed.pipeline = PipelineFor(handed.direction)

\* a chunk submitted as user speech was recognised by the other-to-user pipeline
\* while a handle_inbound_audio call was in progress
C28_Witness ==
    /\ handed.via = "sim_user"
    /\ handed.pipeline = "other_to_user"
    /\ handed.ran
    /\ \E task \in tasks : task.pipeline = "other_to_user" /\ task.chunk < nextChunk - 1
    /\ \E req \in inflight : req.op = "inbound"

(***************************************************************************)
(* C29: handle_incoming_audio(data, is_user_speaking) hands the chunk to   *)
(* the user-to-other pipeline when the flag is true and to the             *)
(* other-to-user pipeline when it is false, whatever the direction         *)
(* indicator says; it never changes the indicator; on a translator that is *)
(* not running it changes nothing.                                         *)
(***************************************************************************)
C29_Fields == <<current_pair, current_direction, running, result_callback, capturing,
                pipeline, inflight, update, tasks, delivered, handed>>

C29_RoutedByFlag ==
    /\ [][\A flag \in BOOLEAN :
            HandleIncomingAudio(flag) =>
               /\ current_direction' = current_direction
               /\ running =>
                    /\ handed'.pipeline = (IF flag THEN "user_to_other" ELSE "other_to_user")
                    /\ handed'.ran
                    /\ \E task \in tasks' :
                          /\ task.chunk = nextChunk
                          /\ task.pipeline = handed'.pipeline
               /\ ~running => UNCHANGED C29_Fields]_vars
    /\ [](/\ handed.via = "incoming_user" => handed.pipeline = "user_to_other"
          /\ handed.via = "incoming_other" => handed.pipeline = "other_to_user")

\* the flag said the user was speaking while the indicator said OtherToUser: the
\* user-to-other pipeline recognised the chunk
C29_Witness ==
    /\ handed.via = "incoming_user"
    /\ handed.direction = "OtherToUser"
    /\ handed.pipeline = "user_to_other"
    /\ handed.ran
    /\ current_direction = "OtherToUser"

\* a call on a translator that was not running
C29_WitnessStopped ==
    /\ ~running
    /\ nextChunk = 2
    /\ handed = NoneHanded
    /\ inflight = {}
    /\ tasks = {}

(***************************************************************************)
(* A step in which process_frame ran on a Vad that was in speech: the last *)
(* result is one of a frame and no setter changed the configuration (such  *)
(* a step always moves the segment or the silence counter).  The frame was *)
(* appended when the segment grew at its end; lastResult.cmp tells how the *)
(* frame's energy compared with the threshold.                             *)
(***************************************************************************)
C30_FrameInSpeech ==
    /\ in_speech
    /\ lastResult'.cmp # "none"
    /\ UNCHANGED <<segment_callback, min_speech_duration_ms, max_silence_duration_ms>>

C30_Appended ==
    /\ Len(current_segment') > Len(current_segment)
    /\ SubSeq(current_segment', 1, Len(current_segment)) = current_segment

\* the steps C30_FrameInSpeech picks are the process_frame calls
C30_FrameSteps ==
    [][C30_FrameInSpeech => \E frame \in Frames : ProcessFrame(frame)]_vars

(***************************************************************************)
(* C30, as stated: while the Vad is in speech, a frame whose energy is at  *)
(* or above the threshold, exactly equal included, is appended to the      *)
(* segment and leaves the silence counter alone; a frame below the         *)
(* threshold is not appended and advances the counter by the frame         *)
(* duration.                                                               *)
(***************************************************************************)
C30_AtOrAboveAppended ==
    [][C30_FrameInSpeech =>
          /\ lastResult'.cmp \in {"above", "equal"} =>
               /\ C30_Appended
               /\ silence_count_ms' = silence_count_ms
          /\ lastResult'.cmp = "below" =>
               /\ current_segment' \in {current_segment, <<>>}
               /\ silence_count_ms' = silence_count_ms + frame_duration_ms]_vars

(***************************************************************************)
(* C30, amended: while the Vad is in speech, a frame whose energy is above *)
(* the threshold is appended to the segment and leaves the silence counter *)
(* alone; a frame at or below the threshold, exactly equal included, is    *)
(* not appended and advances the counter by the frame duration.            *)
(***************************************************************************)
C30_AboveAppended ==
    [][C30_FrameInSpeech =>
          /\ lastResult'.cmp = "above" =>
               /\ C30_Appended
               /\ current_segment' =
                     current_segment \o SubSeq(heard', Len(heard) + 1, Len(heard'))
               /\ silence_count_ms' = silence_count_ms
          /\ lastResult'.cmp \in {"equal", "below"} =>
               /\ current_segment' \in {current_segment, <<>>}
               /\ silence_count_ms' = silence_count_ms + frame_duration_ms]_vars

\* a frame exactly at the threshold was processed in speech: the segment holds the
\* speech only, the counter has advanced by one frame and the utterance goes on
C30_Witness ==
    /\ lastResult.cmp = "equal" /\ lastResult.was_in_speech
    /\ in_speech
    /\ current_segment = heard /\ heard # <<>>
    /\ silence_count_ms = frame_duration_ms

(***************************************************************************)
(* C31: after every frame that takes the Vad from speech to silence, the   *)
(* segment buffer is empty and the silence counter is 0, whether or not    *)
(* the segment callback was invoked.                                       *)
(***************************************************************************)
C31_EndResetsBoth ==
    lastResult.is_end_of_speech =>
        /\ current_segment = <<>>
        /\ silence_count_ms = 0

\* what the code leaves after such a frame: the buffer empty, the Vad out of speech,
\* and the counter at the value that ended the utterance
C31_EndClearsSegment ==
    lastResult.is_end_of_speech =>
        /\ current_segment = <<>>
        /\ ~in_speech
        /\ silence_count_ms >= max_silence_duration_ms

\* an utterance ended with the callback invoked
C31_Ended ==
    /\ lastResult.is_end_of_speech /\ lastResult.called
    /\ silence_count_ms > 0

(***************************************************************************)
(* C32: on the frame that takes the Vad from speech to silence the segment *)
(* callback is invoked if and only if a callback is registered and the     *)
(* duration of the accumulated segment is at least min_speech_duration_ms; *)
(* the segment it is given is the concatenation, in arrival order, of the  *)
(* frames above the threshold received since the last speech start.        *)
(***************************************************************************)
C32_CallbackIffLongEnough ==
    [][(C30_FrameInSpeech /\ lastResult'.is_end_of_speech) =>
          /\ lastResult'.called <=>
                (/\ segment_callback
                 /\ (Len(heard) * 1000) \div sample_rate >= min_speech_duration_ms)
          /\ lastResult'.called => lastResult'.passed = heard]_vars

\* an utterance of exactly the minimum duration, made of two frames, ended and its
\* segment was handed to the callback
C32_Witness ==
    /\ lastResult.is_end_of_speech /\ lastResult.called
    /\ lastResult.passed = heard
    /\ Len(heard) = 3
    /\ (Len(heard) * 1000) \div sample_rate = min_speech_duration_ms

\* an utterance long enough ended with no callback registered
C32_WitnessNoCallback ==
    /\ lastResult.is_end_of_speech /\ ~lastResult.called /\ ~lastResult.short
    /\ ~segment_callback

C34_AnyTaskMayFinishFirst == \A t \in translations : ENABLED TPTask(t)

\* the result of the second utterance arrived while the first utterance's translation,
\* which holds the callback too, has not run to its end
C34_Witness ==
    /\ received.is_final
    /\ received.utterance = 2
    /\ 1 \notin finalised
    /\ \E t \in translations : t.utterance = 1 /\ t.kind = "final" /\ t.callback

\* both results arrived, the first utterance's last
C34_WitnessBoth ==
    /\ received.is_final
    /\ received.utterance = 1
    /\ finalised = {1, 2}

\* the runtime runs every spawned translation
SpecTPFair ==
    /\ InitTP
    /\ [][TPNext]_vars
    /\ \A u \in 1..MaxUtterances :
          WF_vars(\E t \in translations : t.utterance = u /\ TPTask(t))

(***************************************************************************)
(* C35: every final recognition result handled by a running pipeline with  *)
(* a registered callback leads to exactly one invocation of the callback   *)
(* with a final result: none is duplicated, and none comes without its     *)
(* final recognition result.  Every non-final recognition result leads to  *)
(* exactly one invocation with a partial result whose translated text is   *)
(* empty, within the call that handled it.                                 *)
(***************************************************************************)
C35_PendingFinals == {t \in translations : t.callback /\ t.kind = "final"}

\* a step in which a running pipeline handled a frame's recognition result
C35_FrameHandled == frames' = frames + 1

C35_ExactlyOnce ==
    /\ [](final_count.invoked + Cardinality(C35_PendingFinals) = final_count.handled)
    /\ [](\A t \in C35_PendingFinals : t.utterance \notin finalised)
    /\ [][final_count'.invoked # final_count.invoked =>
             /\ final_count'.invoked = final_count.invoked + 1
             /\ received'.is_final /\ ~received'.is_partial
             /\ \E t \in C35_PendingFinals :
                  /\ received'.utterance = t.utterance
                  /\ translations' = translations \ {t}
                  /\ finalised' = finalised \cup {t.utterance}]_vars
    /\ [][final_count'.handled # final_count.handled =>
             /\ final_count'.handled = final_count.handled + 1
             /\ tp_running /\ tp_callback
             /\ tp_call'.op = "process_audio"
             /\ Cardinality(C35_PendingFinals') = Cardinality(C35_PendingFinals) + 1]_vars
    /\ [][C35_FrameHandled =>
             /\ translations' = translations
             /\ tp_call'.invoked = tp_callback
             /\ IF tp_callback
                THEN /\ received'.is_partial /\ ~received'.is_final
                     /\ received'.translated_text = <<>>
                     /\ received'.utterance = utterance
                ELSE received' = received]_vars
    /\ [][(received' # received /\ received'.is_partial) => C35_FrameHandled]_vars
    /\ \A u \in 1..MaxUtterances :
          (\E t \in C35_PendingFinals : t.utterance = u)
             ~> (u \in finalised /\ \A t \in C35_PendingFinals : t.utterance # u)

\* two final recognition results were handled and the callback was invoked once for
\* each, after a partial result
C35_Witness ==
    /\ final_count = [handled |-> 2, invoked |-> 2]
    /\ finalised = {1, 2}
    /\ partials # {}
    /\ translations = {}

(***************************************************************************)
(* C36: no translation is dispatched with a mixed language pair.  The tags *)
(* of every translation task of either pipeline are that pipeline's tags   *)
(* under one language pair that was in force (the pair stored by new or by *)
(* one update_language_pair), never the source of one update and the       *)
(* target of another, however update_language_pair and audio submission    *)
(* interleave.                                                             *)
(***************************************************************************)
\* the language pair a task's tags are its pipeline's orientation of
C36_PairOf(t) ==
    IF t.pipeline = "user_to_other"
    THEN [source |-> t.source_lang, target |-> t.target_lang]
    ELSE [source |-> t.target_lang, target |-> t.source_lang]

\* the pairs in force at this point: the one stored, the one of the last new or
\* update_language_pair that returned, and the one of an update in progress
C36_InForce ==
    {current_pair, [source |-> lastPair.source, target |-> lastPair.target]}
       \cup (IF update.step \in {"pair", "user_to_other"}
             THEN {[source |-> update.user_lang, target |-> update.other_lang]}
             ELSE {})

C36_NoMixedPair ==
    [][\A t \in tasks' \ tasks : C36_PairOf(t) \in C36_InForce]_vars

\* an update has returned; a translation dispatched before it is pending with the
\* old pair, and one dispatched after it with the new pair
C36_Witness ==
    /\ lastPair.by = "update"
    /\ update = NoUpdate
    /\ \E t, u \in tasks :
         /\ t.chunk < u.chunk
         /\ C36_PairOf(t) # current_pair
         /\ C36_PairOf(u) = current_pair

(***************************************************************************)
(* C37: the switchboard's tasks are deadlock-free.  With outbound tasks,   *)
(* inbound tasks, the control loop and the background translations         *)
(* acquiring the translator lock, the direction lock, the pipeline locks   *)
(* and the engine locks, no reachable state has a set of tasks each        *)
(* waiting for a lock held by another task of the set.                     *)
(***************************************************************************)
\* task t waits for a lock another task holds
C37_Blocked(t) ==
    /\ Active(t)
    /\ Statement(t).do = "acquire"
    /\ lk_held[Statement(t).lock] # NoTask

C37_DeadlockFree ==
    ~\E S \in (SUBSET LockTasks) \ {{}} :
        \A t \in S : C37_Blocked(t) /\ lk_held[Statement(t).lock] \in S

\* an audio task holds the translator and its pipeline and waits for the recogniser's
\* lock's turn while the control loop and the other audio task wait for the translator and
\* a translation holds the translator engine's lock
C37_Witness ==
    /\ lk_running
    /\ \E a, b \in AudioTasks, tr \in TranslationTasks :
         /\ a # b
         /\ lk_held[TranslatorLock] = a
         /\ \E p \in Pipelines : lk_held[Lock("pipeline", p)] = a
         /\ C37_Blocked(b) /\ Statement(b).lock = TranslatorLock
         /\ C37_Blocked(ControlTask) /\ Statement(ControlTask).lock = TranslatorLock
         /\ \E p \in Pipelines : lk_held[Lock("mt", p)] = tr

(***************************************************************************)
(* C38: over any sequence of frames the Vad's is_start_of_speech and       *)
(* is_end_of_speech strictly alternate, beginning with a start: an end is  *)
(* never flagged unless a start was flagged with no end since, a start is  *)
(* never flagged while in speech, and no frame carries both flags.         *)
(***************************************************************************)
C38_StartEndAlternate ==
    /\ ~(lastResult.is_start_of_speech /\ lastResult.is_end_of_speech)
    /\ lastResult.is_start_of_speech =>
          /\ ~lastResult.was_open
          /\ ~lastResult.was_in_speech
    /\ lastResult.is_end_of_speech =>
          /\ lastResult.was_open
          /\ lastResult.was_in_speech
    /\ stream.open = in_speech

\* the second start of a stream: it follows an end
C38_Witness ==
    /\ lastResult.is_start_of_speech
    /\ stream.called
    /\ stream.open

\* an end, which follows a start
C38_WitnessEnd ==
    /\ lastResult.is_end_of_speech
    /\ lastResult.was_open
    /\ ~stream.open

(***************************************************************************)
(* C39: while the Vad is in speech, a frame above the threshold leaves the *)
(* silence counter as it is (it is not reset to 0), so the frames not      *)
(* above the threshold add up across the speech frames between them, and   *)
(* the utterance ends on the frame with which their total reaches          *)
(* max_silence_duration_ms, consecutive or not.                            *)
(***************************************************************************)
C39_SilenceAccumulates ==
    /\ [][(C30_FrameInSpeech /\ lastResult'.cmp = "above") =>
             /\ silence_count_ms' = silence_count_ms
             /\ in_speech']_vars
    /\ [](in_speech => silence_count_ms = silentMs)
    /\ []((lastResult.was_in_speech /\ lastResult.cmp # "none") =>
             (lastResult.is_end_of_speech <=>
                 (lastResult.cmp # "above" /\ lastResult.reached)))

\* an utterance ended by two silent frames with a speech frame between them
C39_Witness ==
    /\ lastResult.is_end_of_speech
    /\ stream.resumed
    /\ silentMs = 2 * frame_duration_ms
    /\ silentMs = max_silence_duration_ms

(***************************************************************************)
(* C40: for a RingBuffer of capacity C, readable_size() + writable_size()  *)
(* = C in every reachable state, after any sequence of write, read and     *)
(* clear; after clear() readable_size() is 0 and writable_size() is C.     *)
(***************************************************************************)
C40_SizesAddUp ==
    /\ [](lock = 0 =>
             /\ readable_size \in 0..capacity
             /\ writable_size \in 0..capacity
             /\ readable_size + writable_size = capacity)
    /\ [](lastObs.op = "writable_size" => lastObs.value \in 0..capacity)
    /\ [][\A t \in Threads :
             Clear(t) => (readable_size' = 0 /\ writable_size' = capacity')]_vars

\* a buffer smaller than the largest, written to, read from and then cleared
C40_Witness ==
    /\ lastObs.op = "clear"
    /\ capacity \in 1..(MaxCapacity - 1)
    /\ admitted # <<>>
    /\ readLog # <<>>
    /\ Len(readLog) < Len(admitted)
    /\ readable_size = 0
    /\ writable_size = capacity

=============================================================================
